---- MODULE Spec2Model ----
(***************************************************************************)
(* Model of the analytics core of herflowstate-pwa:                        *)
(*   - class MoodAnalytics  (src/src/utils/goalOptimization.ts:215-706)    *)
(*   - class GoalOptimizer  (src/src/utils/goalOptimization.ts:5-195)      *)
(*                                                                         *)
(* JavaScript numbers are modelled as exact rationals extended with the    *)
(* IEEE-754 special values NaN, +Infinity and -Infinity.  All inputs of    *)
(* the model are small integers, for which the sums and products the code  *)
(* forms are exact in double precision.                                    *)
(*                                                                         *)
(* The local constants of a function are the parameters of local           *)
(* operators (FromSums, FromSorted, ...): each is computed where the       *)
(* operator is applied and named as in the source.                         *)
(***************************************************************************)
EXTENDS Integers, Sequences, FiniteSets, TLC

(***************************************************************************)
(* Bounds of the model                                                     *)
(***************************************************************************)
\* longest list of mood entries handed to the engine
MaxLen == 14
\* longest sequence handed directly to a statistics primitive
MaxVec == 3
\* largest element of such a sequence
MaxVal == 2
\* longest history of mood entries summarised by calculateWellnessMetrics
MaxLong == 29

(***************************************************************************)
(* Numbers: exact rationals with NaN and the infinities                    *)
(***************************************************************************)
AbsInt(i) == IF i < 0 THEN -i ELSE i

RECURSIVE GCD(_, _)
GCD(a, b) == IF b = 0 THEN a ELSE GCD(b, a % b)

\* the number n/d (d # 0), in lowest terms with a positive denominator
Q(n, d) ==
  LET g == GCD(AbsInt(n), AbsInt(d))
      s == IF d < 0 THEN -1 ELSE 1
  IN  [k |-> "fin", n |-> s * (n \div g), d |-> s * (d \div g)]

I(i) == [k |-> "fin", n |-> i, d |-> 1]
NaN == [k |-> "nan", n |-> 0, d |-> 1]
PInf == [k |-> "pinf", n |-> 0, d |-> 1]
NInf == [k |-> "ninf", n |-> 0, d |-> 1]

IsNaN(a) == a.k = "nan"
IsFinite(a) == a.k = "fin"
\* -1, 0 or 1; not used on NaN
Sign(a) ==
  CASE a.k = "pinf" -> 1
    [] a.k = "ninf" -> -1
    [] OTHER -> IF a.n > 0 THEN 1 ELSE IF a.n < 0 THEN -1 ELSE 0

\* a/b < c/d for naturals a, c and positive b, d, without forming a*d
RECURSIVE LessFrac(_, _, _, _)
LessFrac(a, b, c, d) ==
  LET q1 == a \div b
      q2 == c \div d
      r1 == a % b
      r2 == c % d
  IN  IF q1 # q2 THEN q1 < q2
      ELSE IF r2 = 0 THEN FALSE
      ELSE IF r1 = 0 THEN TRUE
      ELSE LessFrac(d, r2, b, r1)

\* the JavaScript operator <  (false as soon as an operand is NaN)
Lt(a, b) ==
  CASE IsNaN(a) \/ IsNaN(b) -> FALSE
    [] a.k = "pinf" -> FALSE
    [] b.k = "ninf" -> FALSE
    [] a.k = "ninf" -> TRUE
    [] b.k = "pinf" -> TRUE
    [] OTHER ->
         IF a.n < 0 /\ b.n >= 0 THEN TRUE
         ELSE IF a.n >= 0 /\ b.n < 0 THEN FALSE
         ELSE IF a.n >= 0 THEN LessFrac(a.n, a.d, b.n, b.d)
         ELSE LessFrac(-b.n, b.d, -a.n, a.d)
Gt(a, b) == Lt(b, a)
\* the JavaScript operators <= and >=
Le(a, b) == ~IsNaN(a) /\ ~IsNaN(b) /\ ~Lt(b, a)
Ge(a, b) == Le(b, a)

Neg(a) ==
  CASE a.k = "fin" -> [a EXCEPT !.n = -a.n]
    [] a.k = "pinf" -> NInf
    [] a.k = "ninf" -> PInf
    [] OTHER -> NaN

\* Math.abs
Abs(a) ==
  CASE a.k = "fin" -> [a EXCEPT !.n = AbsInt(a.n)]
    [] a.k = "nan" -> NaN
    [] OTHER -> PInf

\* the JavaScript operator +
Add(a, b) ==
  CASE IsNaN(a) \/ IsNaN(b) -> NaN
    [] a.k = "fin" /\ b.k = "fin" -> Q(a.n * b.d + b.n * a.d, a.d * b.d)
    [] a.k = "fin" -> b
    [] b.k = "fin" -> a
    [] OTHER -> IF a.k = b.k THEN a ELSE NaN
Sub(a, b) == Add(a, Neg(b))

\* the JavaScript operator *
Mul(a, b) ==
  CASE IsNaN(a) \/ IsNaN(b) -> NaN
    [] a.k = "fin" /\ b.k = "fin" -> Q(a.n * b.n, a.d * b.d)
    [] OTHER ->
         LET s == Sign(a) * Sign(b)
         IN  IF s = 0 THEN NaN ELSE IF s > 0 THEN PInf ELSE NInf

\* the JavaScript operator /  (signed zero is not modelled: every zero
\* divisor of the model is +0)
Div(a, b) ==
  CASE IsNaN(a) \/ IsNaN(b) -> NaN
    [] a.k = "fin" /\ b.k = "fin" ->
         IF b.n # 0 THEN Q(a.n * b.d, a.d * b.n)
         ELSE IF a.n = 0 THEN NaN
         ELSE IF a.n > 0 THEN PInf ELSE NInf
    [] a.k = "fin" -> I(0)
    [] b.k = "fin" ->
         LET s == Sign(a) * (IF b.n < 0 THEN -1 ELSE 1)
         IN  IF s > 0 THEN PInf ELSE NInf
    [] OTHER -> NaN

\* Math.max and Math.min of two numbers (NaN as soon as an operand is NaN)
MathMax(a, b) ==
  IF IsNaN(a) \/ IsNaN(b) THEN NaN ELSE IF Lt(a, b) THEN b ELSE a
\* A faulty variant of Math.min: the second operand, whatever the first.
MathMinSecond(a, b) == b
MathMin(a, b) ==
  IF IsNaN(a) \/ IsNaN(b) THEN NaN ELSE IF Lt(b, a) THEN b ELSE a

\* sum of the integers f[1], ..., f[Len(f)]
RECURSIVE SumSeq(_)
SumSeq(f) == IF f = <<>> THEN 0 ELSE Head(f) + SumSeq(Tail(f))

MinOf(S) == CHOOSE m \in S : \A o \in S : m <= o

(***************************************************************************)
(* Array.prototype.sort: a stable sort under the order "a before b iff     *)
(* comparefn(a, b) < 0".  Each element is placed before the first element  *)
(* that must come after it.                                                *)
(***************************************************************************)
Insert(sorted, x, Before(_, _)) ==
  LET later == {j \in 1..Len(sorted) : Before(x, sorted[j])}
      p == IF later = {} THEN Len(sorted) + 1 ELSE MinOf(later)
  IN  SubSeq(sorted, 1, p - 1) \o <<x>> \o SubSeq(sorted, p, Len(sorted))

SortBy(s, Before(_, _)) ==
  LET ins[k \in 0..Len(s)] ==
        IF k = 0 THEN <<>> ELSE Insert(ins[k - 1], s[k], Before)
  IN  ins[Len(s)]

\* The order a sort leaves is fixed by the language only when comparefn is
\* a consistent comparison; a comparefn that returns NaN (taken as 0) is
\* not, and then the order depends on the algorithm of the host.  Two
\* algorithms are modelled: stable insertion as above, and the sort of V8
\* for arrays shorter than 64 elements, which takes the longest initial run
\* (reversed when strictly descending) and places the remaining elements
\* one by one by binary search.  On a consistent comparefn both agree.
BinaryInsert(sorted, x, Before(_, _)) ==
  LET pos[left \in 0..Len(sorted), right \in 0..Len(sorted)] ==
        IF left >= right THEN left
        ELSE IF Before(x, sorted[left + ((right - left) \div 2) + 1])
             THEN pos[left, left + ((right - left) \div 2)]
             ELSE pos[left + ((right - left) \div 2) + 1, right]
      At(p) == SubSeq(sorted, 1, p) \o <<x>> \o SubSeq(sorted, p + 1, Len(sorted))
  IN  At(pos[0, Len(sorted)])

SortV8(s, Before(_, _)) ==
  LET InRun(isDescending, idx) ==
        IF isDescending THEN Before(s[idx], s[idx - 1])
        ELSE ~Before(s[idx], s[idx - 1])
      RunLength(isDescending) ==
        MinOf({k \in 2..Len(s) :
                 k = Len(s) \/ ~InRun(isDescending, k + 1)})
      MakeRun(isDescending, runLength) ==
        IF isDescending THEN [i \in 1..runLength |-> s[runLength + 1 - i]]
        ELSE SubSeq(s, 1, runLength)
      FromRun(isDescending, runLength) ==
        LET ins[k \in runLength..Len(s)] ==
              IF k = runLength THEN MakeRun(isDescending, runLength)
              ELSE BinaryInsert(ins[k - 1], s[k], Before)
        IN  ins[Len(s)]
      CountAndMakeRun(isDescending) ==
        FromRun(isDescending, RunLength(isDescending))
  IN  IF Len(s) < 2 THEN s ELSE CountAndMakeRun(Before(s[2], s[1]))

Hosts == {"insertion", "binaryInsertion"}

(***************************************************************************)
(* Configuration of the analytics engine                                   *)
(***************************************************************************)
minEntriesForCorrelation == 7
minEntriesForTrends == 14
\* thresholds are rationals <<numerator, denominator>>
DEFAULT_ANALYTICS_CONFIG ==
  [minEntriesForCorrelation |-> minEntriesForCorrelation,
   minEntriesForTrends |-> minEntriesForTrends,
   confidenceThreshold |-> <<5, 100>>,
   correlationThresholds |->
     [strong |-> <<1, 2>>, moderate |-> <<3, 10>>, weak |-> <<1, 10>>]]
config == DEFAULT_ANALYTICS_CONFIG

(***************************************************************************)
(* Mood entries.  A MoodEntry is a record of integer measures; the field   *)
(* "missing" is the set of measures whose stored value is absent or not a  *)
(* number (typeof value # 'number'); the value the record carries for     *)
(* such a measure is never read.  Dates are day numbers.                   *)
(***************************************************************************)
Measures == {"energy", "stress", "sleep", "hydration", "exercise", "nutrition"}

\* comparefn of the sorts by date: new Date(a.date) - new Date(b.date) < 0
DateBefore(a, b) == a.date < b.date

\* entries.sort((a, b) => new Date(a.date).getTime() - new Date(b.date).getTime())
SortByDate(entries) == SortBy(entries, DateBefore)

\* the value read from entry[key]: undefined when the measure is missing
FieldOf(entry, key) ==
  CASE key = "mood" -> entry.mood
    [] key = "energy" -> entry.energy
    [] key = "stress" -> entry.stress
    [] key = "sleep" -> entry.sleep
    [] key = "hydration" -> entry.hydration
    [] key = "exercise" -> entry.exercise
    [] key = "nutrition" -> entry.nutrition

getEntryValue(entry, factor) ==
  IF factor \notin entry.missing
  THEN IF factor = "stress" THEN 10 - entry.stress ELSE FieldOf(entry, factor)
  ELSE 0

(***************************************************************************)
(* pearsonCorrelation.  x and y are sequences of integers.  The            *)
(* coefficient r = numerator / Math.sqrt(den2) is kept as the pair         *)
(* (num, den2); r = 0 is (0, 1).  The p-value is kept as the class the     *)
(* code distinguishes: "one" (p = 1), "zero" (p = 0), "nan", or "beta"     *)
(* (the value of betaIncomplete at an interior point).                     *)
(***************************************************************************)
RZero == [k |-> "fin", num |-> 0, den2 |-> 1]
RNaN == [k |-> "nan", num |-> 0, den2 |-> 1]

\* x.reduce((sum, val, i) => sum + val * y[i], 0): NaN when y[i] is undefined
SumProducts(x, y) ==
  IF Len(y) < Len(x) THEN NaN
  ELSE I(SumSeq([i \in 1..Len(x) |-> x[i] * y[i]]))

SumSquares(x) == SumSeq([i \in 1..Len(x) |-> x[i] * x[i]])

\* sign of r, |r| < |s|, and |r| >= a/b for a threshold <<a, b>>
RSign(r) == IF r.num > 0 THEN 1 ELSE IF r.num < 0 THEN -1 ELSE 0
AbsRLess(r, s) ==
  r.k = "fin" /\ s.k = "fin"
  /\ LessFrac(r.num * r.num, r.den2, s.num * s.num, s.den2)
AbsRGeq(r, th) ==
  r.k = "fin" /\ ~LessFrac(r.num * r.num, r.den2, th[1] * th[1], th[2] * th[2])

\* tTestPValue(|r| * sqrt((n-2)/(1-r*r)), n-2): betaIncomplete returns 1 at
\* x >= 1 (r = 0), 0 at x <= 0 (|r| = 1, t infinite), NaN for NaN
tTestPValue(r, n) ==
  CASE r.k = "nan" -> "nan"
    [] r.num = 0 -> "one"
    [] r.num * r.num = r.den2 -> "zero"
    [] OTHER -> "beta"

\* A faulty variant of pearsonCorrelation: the numerator adds the product of
\* the sums instead of subtracting it.
pearsonCorrelationAddedSums(x, y) ==
  LET Coefficient(numerator, den2) ==
        IF den2 = 0 THEN RZero
        ELSE IF den2 < 0 \/ IsNaN(numerator) THEN RNaN
        ELSE IF numerator.n = 0 THEN RZero
        ELSE [k |-> "fin", num |-> numerator.n, den2 |-> den2]
      Outcome(n, r) == [r |-> r, p |-> tTestPValue(r, n), n |-> n]
      FromSums(n, sumX, sumY, sumXY, sumX2, sumY2) ==
        Outcome(n, Coefficient(Add(Mul(I(n), sumXY), I(sumX * sumY)),
                               (n * sumX2 - sumX * sumX)
                                 * (n * sumY2 - sumY * sumY)))
  IN  IF Len(x) < 3 THEN [r |-> RZero, p |-> "one", n |-> Len(x)]
      ELSE FromSums(Len(x), SumSeq(x), SumSeq(y), SumProducts(x, y),
                    SumSquares(x), SumSquares(y))

pearsonCorrelation(x, y) ==
  LET Coefficient(numerator, den2) ==
        IF den2 = 0 THEN RZero
        ELSE IF den2 < 0 \/ IsNaN(numerator) THEN RNaN
        ELSE IF numerator.n = 0 THEN RZero
        ELSE [k |-> "fin", num |-> numerator.n, den2 |-> den2]
      Outcome(n, r) == [r |-> r, p |-> tTestPValue(r, n), n |-> n]
      FromSums(n, sumX, sumY, sumXY, sumX2, sumY2) ==
        Outcome(n, Coefficient(Sub(Mul(I(n), sumXY), I(sumX * sumY)),
                               (n * sumX2 - sumX * sumX)
                                 * (n * sumY2 - sumY * sumY)))
  IN  IF Len(x) < 3 THEN [r |-> RZero, p |-> "one", n |-> Len(x)]
      ELSE FromSums(Len(x), SumSeq(x), SumSeq(y), SumProducts(x, y),
                    SumSquares(x), SumSquares(y))

(***************************************************************************)
(* calculateCorrelations                                                   *)
(***************************************************************************)
factors == <<"energy", "stress", "sleep", "hydration", "exercise", "nutrition">>

\* factor.charAt(0).toUpperCase() + factor.slice(1)
Capitalize(f) ==
  CASE f = "energy" -> "Energy"
    [] f = "stress" -> "Stress"
    [] f = "sleep" -> "Sleep"
    [] f = "hydration" -> "Hydration"
    [] f = "exercise" -> "Exercise"
    [] f = "nutrition" -> "Nutrition"

\* A faulty variant of Interpretation: the weak bucket takes its suffix from
\* the opposite sign.
InterpretationWeakSignSwapped(r) ==
  LET th == config.correlationThresholds
  IN  IF AbsRGeq(r, th.strong)
      THEN IF RSign(r) > 0 THEN "strong_positive" ELSE "strong_negative"
      ELSE IF AbsRGeq(r, th.moderate)
      THEN IF RSign(r) > 0 THEN "moderate_positive" ELSE "moderate_negative"
      ELSE IF AbsRGeq(r, th.weak)
      THEN IF RSign(r) < 0 THEN "weak_positive" ELSE "weak_negative"
      ELSE "negligible"

Interpretation(r) ==
  LET th == config.correlationThresholds
  IN  IF AbsRGeq(r, th.strong)
      THEN IF RSign(r) > 0 THEN "strong_positive" ELSE "strong_negative"
      ELSE IF AbsRGeq(r, th.moderate)
      THEN IF RSign(r) > 0 THEN "moderate_positive" ELSE "moderate_negative"
      ELSE IF AbsRGeq(r, th.weak)
      THEN IF RSign(r) > 0 THEN "weak_positive" ELSE "weak_negative"
      ELSE "negligible"

CorrelationOf(entries, factor) ==
  LET FromResult(result) ==
        [factor |-> Capitalize(factor),
         correlation |-> result.r,
         significance |-> result.p,
         sampleSize |-> result.n,
         interpretation |-> Interpretation(result.r)]
      \* moodValues and factorValues
  IN  FromResult(pearsonCorrelation(
        [i \in 1..Len(entries) |-> entries[i].mood],
        [i \in 1..Len(entries) |-> getEntryValue(entries[i], factor)]))

\* A faulty variant of the comparefn: ascending |correlation|.
CorrelationBeforeAscending(a, b) == AbsRLess(a.correlation, b.correlation)

\* comparefn: Math.abs(b.correlation) - Math.abs(a.correlation) < 0
CorrelationBefore(a, b) == AbsRLess(b.correlation, a.correlation)

\* A faulty variant of calculateCorrelations: the gate also rejects exactly
\* minEntriesForCorrelation records.
calculateCorrelationsStrictGate(entries) ==
  IF Len(entries) <= config.minEntriesForCorrelation THEN <<>>
  ELSE SortBy([i \in 1..Len(factors) |-> CorrelationOf(entries, factors[i])],
              CorrelationBefore)

calculateCorrelations(entries) ==
  IF Len(entries) < config.minEntriesForCorrelation THEN <<>>
  ELSE SortBy([i \in 1..Len(factors) |-> CorrelationOf(entries, factors[i])],
              CorrelationBefore)

(***************************************************************************)
(* linearRegression.  With Sxx = n*sumX2 - sumX^2, Sxy = n*sumXY -         *)
(* sumX*sumY and Syy = n*sumY2 - sumY^2, the least-squares residual sum    *)
(* the code accumulates is exactly (Sxx*Syy - Sxy^2) / (n*Sxx) and ssTot   *)
(* is Syy / n; both are NaN as soon as the slope is NaN.                   *)
(***************************************************************************)
linearRegression(x, y) ==
  LET Fit(n, sumX, sumY, Sxx, Sxy, Syy, slope) ==
        [slope |-> slope,
         intercept |-> Div(Sub(I(sumY), Mul(slope, I(sumX))), I(n)),
         r2 |-> Sub(I(1),
                    Div(IF IsNaN(slope) THEN NaN
                        ELSE Div(I(Sxx * Syy - Sxy * Sxy), I(n * Sxx)),
                        Div(I(Syy), I(n))))]
      FromMoments(n, sumX, sumY, Sxx, Sxy, Syy) ==
        Fit(n, sumX, sumY, Sxx, Sxy, Syy, Div(I(Sxy), I(Sxx)))
      FromSums(n, sumX, sumY, sumXY, sumX2, sumY2) ==
        FromMoments(n, sumX, sumY, n * sumX2 - sumX * sumX,
                    n * sumXY - sumX * sumY, n * sumY2 - sumY * sumY)
  IN  FromSums(Len(x), SumSeq(x), SumSeq(y),
               SumSeq([i \in 1..Len(x) |-> x[i] * y[i]]),
               SumSquares(x), SumSquares(y))

(***************************************************************************)
(* analyzeTrends                                                           *)
(***************************************************************************)
metrics == <<"mood", "energy", "stress", "sleep", "hydration", "exercise", "nutrition">>

TrendOf(entries, metric) ==
  LET Direction(weeklyChange) ==
        IF Lt(Abs(weeklyChange), Q(1, 10)) THEN "stable"
        ELSE IF Gt(weeklyChange, I(0)) THEN "increasing"
        ELSE "decreasing"
      Trend(regression, weeklyChange) ==
        [metric |-> metric,
         direction |-> Direction(weeklyChange),
         magnitude |-> Abs(weeklyChange),
         significance |-> regression.r2,
         timeframe |-> Len(entries)]
      FromRegression(regression) ==
        Trend(regression, Mul(regression.slope, I(7)))
      \* timeIndices (days since the first entry) and values
  IN  FromRegression(linearRegression(
        [i \in 1..Len(entries) |-> entries[i].date - entries[1].date],
        [i \in 1..Len(entries) |-> getEntryValue(entries[i], metric)]))

\* b - a < 0, decided without forming the difference of two finite numbers
DiffNegative(b, a) ==
  IF IsFinite(a) /\ IsFinite(b) THEN Lt(b, a) ELSE Lt(Sub(b, a), I(0))

\* comparefn: b.significance - a.significance < 0
TrendBefore(a, b) == DiffNegative(b.significance, a.significance)

\* metrics.forEach(metric => trends.push(...))
TrendsOf(entries) ==
  LET trends[k \in 0..Len(metrics)] ==
        IF k = 0 THEN <<>>
        ELSE Append(trends[k - 1], TrendOf(entries, metrics[k]))
  IN  trends[Len(metrics)]

\* significance is NaN for a metric without variance and for records of
\* one date, so comparefn may return NaN and the order is the host's
analyzeTrends(entries, host) ==
  IF Len(entries) < config.minEntriesForTrends THEN <<>>
  ELSE IF host = "insertion" THEN SortBy(TrendsOf(entries), TrendBefore)
  ELSE SortV8(TrendsOf(entries), TrendBefore)

\* the hosts that order the trends of the entries differently
DistinctHosts(entries) ==
  LET Distinct(trends) ==
        IF SortV8(trends, TrendBefore) = SortBy(trends, TrendBefore)
        THEN {"insertion"} ELSE Hosts
  IN  IF Len(entries) < config.minEntriesForTrends THEN {"insertion"}
      ELSE Distinct(TrendsOf(entries))

(***************************************************************************)
(* generateOptimizations                                                   *)
(***************************************************************************)
\* The p-value tTestPValue computes decreases as r*r grows; it crosses
\* config.confidenceThreshold (0.05) at r*r = CriticalR2(n) / 1000000, the
\* value obtained by evaluating tTestPValue / betaIncomplete / logGamma /
\* betaContinuedFraction for n samples.
CriticalR2(n) ==
  CASE n = 7 -> 569259 [] n = 8 -> 499474 [] n = 9 -> 444067
    [] n = 10 -> 399294 [] n = 11 -> 362487 [] n = 12 -> 331756
    [] n = 13 -> 305746 [] n = 14 -> 283463 [] n = 15 -> 264173
    [] n = 16 -> 247316 [] n = 17 -> 232465 [] n = 18 -> 219284
    [] n = 19 -> 207508 [] n = 20 -> 196926 [] n = 21 -> 187366

\* corr.significance < this.config.confidenceThreshold
BelowConfidence(corr) ==
  \/ corr.significance = "zero"
  \/ /\ corr.significance = "beta"
     /\ LessFrac(CriticalR2(corr.sampleSize), 1000000,
                 corr.correlation.num * corr.correlation.num,
                 corr.correlation.den2)

\* Math.abs(corr.correlation) > a/b
AbsRGreater(r, th) ==
  r.k = "fin" /\ LessFrac(th[1] * th[1], th[2] * th[2], r.num * r.num, r.den2)

\* the suggestion built for a correlation; expectedImpact = |r| * impact
\* is kept as the multiplier <<a, b>> next to basedOnCorrelation
SuggestionFor(corr) ==
  LET r == corr.correlation
      factor == corr.factor
      mk(category, priority, impact, timeframe, difficulty) ==
        [category |-> category, priority |-> priority,
         expectedImpact |-> impact, timeframe |-> timeframe,
         difficulty |-> difficulty, basedOnCorrelation |-> r]
  IN  CASE factor = "Sleep" ->
             mk("sleep", IF AbsRGreater(r, <<1, 2>>) THEN 1 ELSE 2, <<3, 1>>,
                "1-2 weeks", "moderate")
        [] factor = "Exercise" ->
             mk("exercise", IF AbsRGreater(r, <<2, 5>>) THEN 1 ELSE 2, <<5, 2>>,
                "2-3 weeks", "moderate")
        [] factor = "Nutrition" ->
             mk("nutrition", 2, <<2, 1>>, "1-3 weeks", "easy")
        [] factor = "Stress" ->
             mk("stress", 1, <<7, 2>>, "1-4 weeks", "moderate")
        [] factor = "Hydration" ->
             mk("hydration", 3, <<3, 2>>, "1 week", "easy")
        [] factor = "Energy" ->
             mk("lifestyle", 2, <<2, 1>>, "2-4 weeks", "moderate")

\* |a.r| * a.impact < |b.r| * b.impact
ImpactLess(a, b) ==
  LET ra == a.basedOnCorrelation
      rb == b.basedOnCorrelation
      ia == a.expectedImpact
      ib == b.expectedImpact
  IN  LessFrac(ra.num * ra.num * ia[1] * ia[1], ra.den2 * ia[2] * ia[2],
               rb.num * rb.num * ib[1] * ib[1], rb.den2 * ib[2] * ib[2])

\* A faulty variant of the comparefn: ascending expectedImpact within a
\* priority.
SuggestionBeforeImpactAscending(a, b) ==
  IF a.priority # b.priority THEN a.priority < b.priority
  ELSE ImpactLess(a, b)

\* comparefn: priority difference, then b.expectedImpact - a.expectedImpact
SuggestionBefore(a, b) ==
  IF a.priority # b.priority THEN a.priority < b.priority
  ELSE ImpactLess(b, a)

\* s.filter(Keep)
RECURSIVE FilterIdx(_, _)
FilterIdx(s, keep) ==
  IF s = <<>> THEN <<>>
  ELSE IF keep[1] THEN <<Head(s)>> \o FilterIdx(Tail(s), Tail(keep))
  ELSE FilterIdx(Tail(s), Tail(keep))

\* a suggestion for every correlation of at least weak size, whatever its
\* p-value
generateOptimizationsWeakOnly(entries) ==
  LET Significant(correlations) ==
        FilterIdx(correlations,
                  [i \in 1..Len(correlations) |->
                     AbsRGeq(correlations[i].correlation,
                             config.correlationThresholds.weak)])
      Suggestions(kept) == [i \in 1..Len(kept) |-> SuggestionFor(kept[i])]
  IN  SortBy(Suggestions(Significant(calculateCorrelations(entries))),
             SuggestionBefore)

generateOptimizations(entries) ==
  LET Significant(correlations) ==
        FilterIdx(correlations,
                  [i \in 1..Len(correlations) |->
                     /\ AbsRGeq(correlations[i].correlation,
                                config.correlationThresholds.weak)
                     /\ BelowConfidence(correlations[i])])
      Suggestions(kept) == [i \in 1..Len(kept) |-> SuggestionFor(kept[i])]
  IN  SortBy(Suggestions(Significant(calculateCorrelations(entries))),
             SuggestionBefore)

(***************************************************************************)
(* calculateWellnessMetrics                                                *)
(***************************************************************************)
\* entries.slice(-k)
SliceLast(entries, k) ==
  SubSeq(entries, IF Len(entries) > k THEN Len(entries) - k + 1 ELSE 1,
         Len(entries))

\* A faulty variant of slice(-from, -to): everything before the last `to`.
SliceBetweenFromStart(entries, from, to) ==
  SubSeq(entries, 1, Len(entries) - to)

\* entries.slice(-from, -to) for from > to > 0
SliceBetween(entries, from, to) ==
  SubSeq(entries, IF Len(entries) > from THEN Len(entries) - from + 1 ELSE 1,
         Len(entries) - to)

\* entries.reduce((sum, e) => sum + e[key], 0) / entries.length: the sum is
\* NaN as soon as one e[key] is undefined
AverageOf(entries, key) ==
  IF \E i \in 1..Len(entries) : key \in entries[i].missing THEN NaN
  ELSE Div(I(SumSeq([i \in 1..Len(entries) |-> FieldOf(entries[i], key)])),
           I(Len(entries)))

ImprovementTrend(entries) ==
  LET Compare(recentAvg, olderAvg) ==
        IF Gt(recentAvg, Add(olderAvg, Q(3, 10))) THEN "improving"
        ELSE IF Lt(recentAvg, Sub(olderAvg, Q(3, 10))) THEN "declining"
        ELSE "stable"
      FromSlices(recent, older) ==
        IF Len(recent) >= 7 /\ Len(older) >= 7
        THEN Compare(AverageOf(recent, "mood"), AverageOf(older, "mood"))
        ELSE "stable"
  IN  FromSlices(SliceLast(entries, 14), SliceBetween(entries, 28, 14))

calculateWellnessMetrics(entries) ==
  IF Len(entries) = 0
  THEN [averageMood |-> I(0), averageEnergy |-> I(0), averageStress |-> I(0),
        averageSleep |-> I(0), averageHydration |-> I(0),
        averageExercise |-> I(0), averageNutrition |-> I(0),
        consistencyScore |-> I(0), improvementTrend |-> "stable"]
  ELSE [averageMood |-> AverageOf(entries, "mood"),
        averageEnergy |-> AverageOf(entries, "energy"),
        averageStress |-> AverageOf(entries, "stress"),
        averageSleep |-> AverageOf(entries, "sleep"),
        averageHydration |-> AverageOf(entries, "hydration"),
        averageExercise |-> AverageOf(entries, "exercise"),
        averageNutrition |-> AverageOf(entries, "nutrition"),
        consistencyScore |->
          MathMin(I(100), Mul(Div(I(Len(entries)), I(30)), I(100))),
        improvementTrend |-> ImprovementTrend(entries)]

(***************************************************************************)
(* detectWeeklyPatterns                                                    *)
(***************************************************************************)
\* keys of dayOfWeekMoods in insertion order; day number 0 is a Sunday
WeekDays == <<"Sunday", "Monday", "Tuesday", "Wednesday", "Thursday",
              "Friday", "Saturday">>

\* new Date(entry.date).toLocaleDateString('en-US', { weekday: 'long' })
DayName(date) == WeekDays[(date % 7) + 1]

\* fold of Math.max / Math.min over a non-empty sequence of numbers
RECURSIVE MaxSeq(_)
MaxSeq(s) == IF Len(s) = 1 THEN s[1] ELSE MathMax(s[1], MaxSeq(Tail(s)))
RECURSIVE MinSeq(_)
MinSeq(s) == IF Len(s) = 1 THEN s[1] ELSE MathMin(s[1], MinSeq(Tail(s)))

\* the items of all seven weekdays, an unobserved weekday with average 0
DayAveragesUnfiltered(entries) ==
  LET moodsOf(d) == {i \in 1..Len(entries) : DayName(entries[i].date) = WeekDays[d]}
      sumOf(S) == SumSeq([i \in 1..Len(entries) |->
                            IF i \in S THEN entries[i].mood ELSE 0])
      Item(d, moods) ==
        [day |-> WeekDays[d],
         average |-> IF moods # {}
                     THEN Div(I(sumOf(moods)), I(Cardinality(moods)))
                     ELSE I(0),
         count |-> Cardinality(moods)]
  IN  [d \in 1..7 |-> Item(d, moodsOf(d))]

\* the {day, average, count} items with count > 0, in weekday order
DayAverages(entries) ==
  LET moodsOf(d) == {i \in 1..Len(entries) : DayName(entries[i].date) = WeekDays[d]}
      sumOf(S) == SumSeq([i \in 1..Len(entries) |->
                            IF i \in S THEN entries[i].mood ELSE 0])
      Item(d, moods) ==
        [day |-> WeekDays[d],
         average |-> IF moods # {}
                     THEN Div(I(sumOf(moods)), I(Cardinality(moods)))
                     ELSE I(0),
         count |-> Cardinality(moods)]
      NonEmpty(items) == FilterIdx(items, [d \in 1..7 |-> items[d].count > 0])
  IN  NonEmpty([d \in 1..7 |-> Item(d, moodsOf(d))])

\* peakDays holds only the weekdays that attain the maximum
detectWeeklyPatternsExactPeak(entries) ==
  LET Pattern(dayAverages, variation, peak, low) ==
        IF Len(entries) < 14 THEN <<>>
        ELSE IF Len(dayAverages) < 4 THEN <<>>
        ELSE IF Lt(variation, Q(1, 2)) THEN <<>>
        ELSE <<[patternType |-> "weekly",
                variation |-> variation,
                strength |-> MathMin(I(1), Div(variation, I(3))),
                peakDays |-> [i \in 1..Len(peak) |-> peak[i].day],
                lowDays |-> [i \in 1..Len(low) |-> low[i].day]]>>
      FromExtremes(dayAverages, maxMood, minMood) ==
        Pattern(dayAverages, Sub(maxMood, minMood),
                FilterIdx(dayAverages,
                  [i \in 1..Len(dayAverages) |->
                     Ge(dayAverages[i].average, maxMood)]),
                FilterIdx(dayAverages,
                  [i \in 1..Len(dayAverages) |->
                     Le(dayAverages[i].average, Add(minMood, Q(3, 10)))]))
      FromAverages(dayAverages, averages) ==
        FromExtremes(dayAverages, MaxSeq(averages), MinSeq(averages))
      FromDays(dayAverages) ==
        FromAverages(dayAverages,
                     [i \in 1..Len(dayAverages) |-> dayAverages[i].average])
  IN  FromDays(DayAverages(entries))

detectWeeklyPatterns(entries) ==
  LET Pattern(dayAverages, variation, peak, low) ==
        IF Len(entries) < 14 THEN <<>>
        ELSE IF Len(dayAverages) < 4 THEN <<>>
        ELSE IF Lt(variation, Q(1, 2)) THEN <<>>
        ELSE <<[patternType |-> "weekly",
                variation |-> variation,
                strength |-> MathMin(I(1), Div(variation, I(3))),
                peakDays |-> [i \in 1..Len(peak) |-> peak[i].day],
                lowDays |-> [i \in 1..Len(low) |-> low[i].day]]>>
      FromExtremes(dayAverages, maxMood, minMood) ==
        Pattern(dayAverages, Sub(maxMood, minMood),
                FilterIdx(dayAverages,
                  [i \in 1..Len(dayAverages) |->
                     Ge(dayAverages[i].average, Sub(maxMood, Q(3, 10)))]),
                FilterIdx(dayAverages,
                  [i \in 1..Len(dayAverages) |->
                     Le(dayAverages[i].average, Add(minMood, Q(3, 10)))]))
      FromAverages(dayAverages, averages) ==
        FromExtremes(dayAverages, MaxSeq(averages), MinSeq(averages))
      FromDays(dayAverages) ==
        FromAverages(dayAverages,
                     [i \in 1..Len(dayAverages) |-> dayAverages[i].average])
  IN  FromDays(DayAverages(entries))

(***************************************************************************)
(* generateAdvancedInsights                                                *)
(***************************************************************************)
generateAdvancedInsights(entries, host) ==
  LET AvgRecentMood(recentEntries) ==
        IF Len(recentEntries) > 0 THEN AverageOf(recentEntries, "mood")
        ELSE I(5)
      NextWeekMood(avgRecentMood, moodTrend) ==
        MathMax(I(1), MathMin(I(10),
          Add(avgRecentMood,
              Mul(moodTrend.magnitude,
                  IF moodTrend.direction = "increasing"
                  THEN I(1) ELSE I(-1)))))
      Predictions(top, trends, found, avgRecentMood) ==
        [nextWeekMood |-> IF found # {}
                          THEN NextWeekMood(avgRecentMood, trends[MinOf(found)])
                          ELSE avgRecentMood,
         confidence |-> MathMin(I(90), I(Len(entries) * 3)),
         basedOn |-> [i \in 1..Len(top) |-> top[i].factor]
                     \o (IF found # {}
                         THEN <<trends[MinOf(found)].direction>> ELSE <<>>)]
      Insights(correlations, trends) ==
        [correlations |-> correlations,
         trends |-> trends,
         patterns |-> detectWeeklyPatterns(entries),
         optimizations |-> generateOptimizations(entries),
         predictions |->
           Predictions(SubSeq(correlations, 1,
                              IF Len(correlations) < 3
                              THEN Len(correlations) ELSE 3),
                       trends,
                       {i \in 1..Len(trends) : trends[i].metric = "mood"},
                       AvgRecentMood(SliceLast(entries, 7)))]
  IN  Insights(calculateCorrelations(entries), analyzeTrends(entries, host))

(***************************************************************************)
(* GoalOptimizer.  Timestamps are whole days (getTime() / (1000*60*60*24)).*)
(* A Goal is [targetValue, currentValue, createdAt, deadline]; a           *)
(* GoalProgress sample is [id, date, value].  "now" is the value of        *)
(* new Date() during the call.  An operation that sorts progressData in    *)
(* place returns the array it leaves behind in the field "data".           *)
(***************************************************************************)
\* comparefn: a.date.getTime() - b.date.getTime() < 0
TimeBefore(a, b) == a.date < b.date

\* A faulty variant of calculateAverageDailyProgress: the samples are read in
\* the order the caller left them and sorted only afterwards, so the value
\* depends on what an earlier call did to the array.
calculateAverageDailyProgressReadThenSort(progressData) ==
  LET days(data, i) == data[i].date - data[i - 1].date
      progress(data, i) == data[i].value - data[i - 1].value
      Rate(totalProgress, totalDays) ==
        IF totalDays > 0 THEN Div(I(totalProgress), I(totalDays)) ELSE I(0)
      Average(data) ==
        Rate(SumSeq([i \in 1..Len(data) - 1 |->
                       IF days(data, i + 1) > 0
                       THEN progress(data, i + 1) ELSE 0]),
             SumSeq([i \in 1..Len(data) - 1 |->
                       IF days(data, i + 1) > 0
                       THEN days(data, i + 1) ELSE 0]))
      FromSorted(sortedData) ==
        [value |-> Average(progressData), data |-> sortedData]
  IN  IF Len(progressData) < 2
      THEN [value |-> I(0), data |-> progressData]
      ELSE FromSorted(SortBy(progressData, TimeBefore))

calculateAverageDailyProgress(progressData) ==
  LET days(data, i) == data[i].date - data[i - 1].date
      progress(data, i) == data[i].value - data[i - 1].value
      Rate(totalProgress, totalDays) ==
        IF totalDays > 0 THEN Div(I(totalProgress), I(totalDays)) ELSE I(0)
      Average(data) ==
        Rate(SumSeq([i \in 1..Len(data) - 1 |->
                       IF days(data, i + 1) > 0
                       THEN progress(data, i + 1) ELSE 0]),
             SumSeq([i \in 1..Len(data) - 1 |->
                       IF days(data, i + 1) > 0
                       THEN days(data, i + 1) ELSE 0]))
      FromSorted(sortedData) ==
        [value |-> Average(sortedData), data |-> sortedData]
  IN  IF Len(progressData) < 2
      THEN [value |-> I(0), data |-> progressData]
      ELSE FromSorted(SortBy(progressData, TimeBefore))

\* A faulty variant of calculateConsistencyScore: negative changes are kept.
calculateConsistencyScoreSignedChanges(progressData) ==
  LET change(data, i) == data[i + 1].value - data[i].value
      \* m^2 * variance = m * sum(val^2) - total^2 ; m * mean = total
      Cv2(m, total, sumSquares) ==
        IF total > 0 THEN Q(m * sumSquares - total * total, total * total)
        ELSE I(1)
      FromChanges(dailyChanges) ==
        Cv2(Len(dailyChanges), SumSeq(dailyChanges), SumSquares(dailyChanges))
      FromSorted(sortedData) ==
        [cv2 |-> FromChanges([i \in 1..Len(sortedData) - 1 |->
                                change(sortedData, i)]),
         data |-> sortedData]
  IN  IF Len(progressData) < 3
      THEN [cv2 |-> Q(1, 4), data |-> progressData]
      ELSE FromSorted(SortBy(progressData, TimeBefore))

\* The score is Math.max(0, 100 - cv * 100) with cv = stdDev / mean the
\* square root of the rational cv2 = variance / mean^2; it is kept as cv2
\* (score = 100 * max(0, 1 - sqrt(cv2)); the default 50 is cv2 = 1/4, and
\* cv = 1 for a mean that is not positive).
calculateConsistencyScore(progressData) ==
  LET change(data, i) == data[i + 1].value - data[i].value
      \* m^2 * variance = m * sum(val^2) - total^2 ; m * mean = total
      Cv2(m, total, sumSquares) ==
        IF total > 0 THEN Q(m * sumSquares - total * total, total * total)
        ELSE I(1)
      FromChanges(dailyChanges) ==
        Cv2(Len(dailyChanges), SumSeq(dailyChanges), SumSquares(dailyChanges))
      FromSorted(sortedData) ==
        [cv2 |-> FromChanges([i \in 1..Len(sortedData) - 1 |->
                                IF change(sortedData, i) > 0
                                THEN change(sortedData, i) ELSE 0]),
         data |-> sortedData]
  IN  IF Len(progressData) < 3
      THEN [cv2 |-> Q(1, 4), data |-> progressData]
      ELSE FromSorted(SortBy(progressData, TimeBefore))

\* consistencyScore < a/b (a/b in 0..100), i.e. sqrt(cv2) > 1 - a/(100 b)
ConsistencyBelow(cv2, a, b) ==
  Lt(Q((100 * b - a) * (100 * b - a), 10000 * b * b), cv2)

calculateGoalMetrics(goal, progressData, now) ==
  LET timeTotal == goal.deadline - goal.createdAt
      timeElapsed == now - goal.createdAt
      timeRemaining == IF goal.deadline - now > 0 THEN goal.deadline - now ELSE 0
      Metrics(dailyProgress, projectedDays, theoreticalRate, consistency) ==
        [metrics |->
           [completionRate |->
              Mul(Div(I(goal.currentValue), I(goal.targetValue)), I(100)),
            timeRemaining |-> I(timeRemaining),
            averageDailyProgress |-> dailyProgress,
            projectedCompletion |-> Add(I(now), projectedDays),
            efficiencyScore |->
              MathMin(I(100), Mul(Div(dailyProgress, theoreticalRate), I(100))),
            consistencyScore |-> consistency.cv2],
         data |-> consistency.data]
      FromProgress(dailyProgress, afterAverage) ==
        Metrics(dailyProgress,
                Div(I(goal.targetValue - goal.currentValue),
                    MathMax(dailyProgress, Q(1, 1000))),
                Div(I(goal.targetValue), I(timeTotal)),
                calculateConsistencyScore(afterAverage))
      FromAverage(average) ==
        IF Len(progressData) > 1
        THEN FromProgress(average.value, average.data)
        ELSE FromProgress(Div(I(goal.currentValue), I(timeElapsed)),
                          progressData)
  IN  FromAverage(calculateAverageDailyProgress(progressData))

\* A faulty variant of identifyBottlenecks: stagnation is reported also for
\* a goal without any progress sample.
identifyBottlenecksNoHistoryCheck(goal, m, progressData, now) ==
  LET recentProgress == Cardinality({i \in 1..Len(progressData) :
                                       now - progressData[i].date < 7})
  IN  (IF Lt(m.efficiencyScore, I(50)) THEN <<"Low progress rate">> ELSE <<>>)
      \o (IF ConsistencyBelow(m.consistencyScore, 40, 1)
          THEN <<"High variability in progress">> ELSE <<>>)
      \o (IF Lt(m.timeRemaining, I(7)) /\ Lt(m.completionRate, I(80))
          THEN <<"Time constraint">> ELSE <<>>)
      \o (IF recentProgress = 0
          THEN <<"Progress stagnation">> ELSE <<>>)

identifyBottlenecks(goal, m, progressData, now) ==
  LET recentProgress == Cardinality({i \in 1..Len(progressData) :
                                       now - progressData[i].date < 7})
  IN  (IF Lt(m.efficiencyScore, I(50)) THEN <<"Low progress rate">> ELSE <<>>)
      \o (IF ConsistencyBelow(m.consistencyScore, 40, 1)
          THEN <<"High variability in progress">> ELSE <<>>)
      \o (IF Lt(m.timeRemaining, I(7)) /\ Lt(m.completionRate, I(80))
          THEN <<"Time constraint">> ELSE <<>>)
      \o (IF recentProgress = 0 /\ Len(progressData) > 0
          THEN <<"Progress stagnation">> ELSE <<>>)

\* A faulty variant of the comparefn: descending priority.
PriorityBeforeDescending(a, b) == b.priority < a.priority

\* comparefn: a.priority - b.priority < 0
PriorityBefore(a, b) == a.priority < b.priority

generateRecommendations(goal, m, bottlenecks) ==
  LET recommendations ==
        (IF Lt(m.efficiencyScore, I(60))
         THEN <<[type |-> "increase_frequency", priority |-> 1,
                 expectedImprovement |-> 30]>> ELSE <<>>)
        \o (IF ConsistencyBelow(m.consistencyScore, 50, 1)
            THEN <<[type |-> "add_support", priority |-> 2,
                    expectedImprovement |-> 25]>> ELSE <<>>)
        \o (IF Gt(m.completionRate, I(80)) /\ Gt(m.timeRemaining, I(30))
            THEN <<[type |-> "adjust_target", priority |-> 3,
                    expectedImprovement |-> 15]>> ELSE <<>>)
  IN  SortBy(recommendations, PriorityBefore)

\* GoalOptimizer.calculateCorrelations: one fixed entry (correlation 0.65,
\* significance 0.02)
GoalCorrelations ==
  <<[variable1 |-> "Daily Progress", variable2 |-> "Mood Score",
     correlation |-> Q(65, 100), significance |-> Q(2, 100)]>>

analyzeGoalOptimization(goal, progressData, now) ==
  LET Analysis(m, data, bottlenecks) ==
        [analysis |->
           [currentEfficiency |-> m.efficiencyScore,
            bottlenecks |-> bottlenecks,
            recommendations |-> generateRecommendations(goal, m, bottlenecks),
            correlationMatrix |-> GoalCorrelations],
         data |-> data]
      FromMetrics(m, data) ==
        Analysis(m, data, identifyBottlenecks(goal, m, data, now))
      FromComputed(computed) == FromMetrics(computed.metrics, computed.data)
  IN  FromComputed(calculateGoalMetrics(goal, progressData, now))

(***************************************************************************)
(* Inputs                                                                  *)
(***************************************************************************)
\* the shapes a measure can follow over the entries, and the value (1..10)
\* a measure following shape s takes in the i-th entry
Shapes == <<"constant", "rising", "falling", "mixed">>
ShapeValue(s, i) ==
  CASE s = "constant" -> 5
    [] s = "rising" -> 1 + ((i - 1) \div 2)
    [] s = "falling" -> 9 - ((i - 1) \div 2)
    [] s = "mixed" -> 1 + ((i * 7) % 5) + (i \div 4)

\* the day of the i-th entry: ascending days that leave out two days of
\* every week, one single day, or scattered days (out of order, with
\* repetitions and gaps)
DatePatterns == {"ascending", "sameDay", "scattered"}
DateOf(dp, i) ==
  CASE dp = "ascending" -> (i - 1) + 2 * ((i - 1) \div 5)
    [] dp = "sameDay" -> 0
    [] dp = "scattered" -> ((i * 3) % 5) + 2 * (i \div 6)

\* the measures absent from every third entry
MissingSets == {{}, {"energy", "sleep"}}

\* the lengths of the entry list: the empty list, the thresholds 7 and 14
\* and their neighbours, and every length from 14 to MaxLen
Lengths == {n \in 0..MaxLen : n \in {0, 6, 7, 13} \/ n >= 14}

\* the shape of the f-th factor, counting from the k-th shape: all factors
\* alike (j = 0) or staggered (j = 1)
FactorShape(k, j, f) == Shapes[((k + j * (f - 1)) % Len(Shapes)) + 1]

MakeEntries(n, ms, k, j, dp, miss) ==
  [i \in 1..n |->
     [id |-> i,
      date |-> DateOf(dp, i),
      mood |-> ShapeValue(Shapes[ms], i),
      energy |-> ShapeValue(FactorShape(k, j, 1), i),
      stress |-> ShapeValue(FactorShape(k, j, 2), i),
      sleep |-> ShapeValue(FactorShape(k, j, 3), i),
      hydration |-> ShapeValue(FactorShape(k, j, 4), i),
      exercise |-> ShapeValue(FactorShape(k, j, 5), i),
      nutrition |-> ShapeValue(FactorShape(k, j, 6), i),
      missing |-> IF i % 3 = 0 THEN miss ELSE {}]]

\* a history of n daily entries whose mood is 5, except that it is 5 + s in
\* the first u of the last 14 entries and 1 in the entries that precede the
\* last 28
StepEntries(n, u, s) ==
  [i \in 1..n |->
     [id |-> i, date |-> i - 1,
      mood |-> IF i <= n - 28 THEN 1
               ELSE IF i > n - 14 /\ i <= n - 14 + u THEN 5 + s
               ELSE 5,
      energy |-> 5, stress |-> 5, sleep |-> 5, hydration |-> 5,
      exercise |-> 5, nutrition |-> 5, missing |-> {}]]

\* the lengths of such a history: around the 21 records that fill half of
\* the older window, and around the 28 that fill it
LongLengths == {n \in 15..MaxLong : n \in {15, 20, 21, 27} \/ n >= 28}
StepWidths == {0, 4, 5, 9, 14}
StepSizes == {-1, 1}

\* a diary of 14 entries over five weeks, kept on Sundays and Mondays
\* (twice), Tuesdays and Wednesdays (four times) and Thursdays (twice),
\* whose mood is 5 except on the days of high, where it is 6
DiaryDates == <<0, 1, 2, 3, 7, 8, 9, 10, 16, 17, 23, 24, 25, 32>>
DiaryEntries(high) ==
  [i \in 1..Len(DiaryDates) |->
     [id |-> i, date |-> DiaryDates[i],
      mood |-> IF i \in high THEN 6 ELSE 5,
      energy |-> 5, stress |-> 5, sleep |-> 5, hydration |-> 5,
      exercise |-> 5, nutrition |-> 5, missing |-> {}]]
\* at most MaxHigh days of mood 6
MaxHigh == 2

\* all sequences over S of length at most n
SeqsUpTo(n, S) == UNION {[1..m -> S] : m \in 0..n}

\* progress samples: at most MaxProgress samples out of ProgressSamples,
\* which are taken one and two days apart, two of them at one time, and
\* whose values rise, stay and fall
MaxProgress == 4
ProgressSamples ==
  {[date |-> 0, value |-> 0], [date |-> 1, value |-> 2],
   [date |-> 1, value |-> 5], [date |-> 3, value |-> 0],
   [date |-> 3, value |-> 5]}
ProgressDates == {s.date : s \in ProgressSamples}
\* the day of the first call: the day of the latest possible sample
Today == CHOOSE d \in ProgressDates : \A e \in ProgressDates : e <= d
\* goals created on day 0: behind schedule, on schedule, and past the target
Goals ==
  {[targetValue |-> 10, currentValue |-> 0, createdAt |-> 0, deadline |-> 45],
   [targetValue |-> 10, currentValue |-> 5, createdAt |-> 0, deadline |-> 8],
   [targetValue |-> 10, currentValue |-> 12, createdAt |-> 0, deadline |-> 45]}
NoGoal == [targetValue |-> 1, currentValue |-> 0, createdAt |-> 0, deadline |-> 1]

(***************************************************************************)
(* State                                                                   *)
(***************************************************************************)
VARIABLES
  part,            \* which component the behaviour exercises
  callerEntries,   \* the MoodEntry array held by the caller
  thisEntries,     \* MoodAnalytics.entries (the same array object)
  engine,          \* "none" until a MoodAnalytics has been constructed
  host,            \* the sort algorithm of the JavaScript engine
  entriesBefore,   \* the caller's entries before any call
  goal,            \* the Goal handed to GoalOptimizer
  progressData,    \* the GoalProgress array held by the caller
  progressBefore,  \* the caller's progress samples before any call
  now,             \* the clock, in days
  xs, ys,          \* arguments of a statistics primitive
  result,          \* operation, output and time of the latest call
  repeat,          \* how the latest call compares with the same call made
                   \* just before it on the same arguments
  goals,           \* GoalTrackerPage: the goals state
  progressByGoal,  \* GoalTrackerPage: the progressData state, by goal id
  trackerEntries,  \* useMoodTracker: the entries state
  trackerError,    \* useMoodTracker: the error state
  storage,         \* localStorage['herflowstate-mood-entries']
  formData,        \* DailyMoodEntry: the formData state
  existingEntry    \* DailyMoodEntry: the existingEntry state

\* the state of the React components
uiVars == <<goals, progressByGoal, trackerEntries, trackerError, storage,
            formData, existingEntry>>

vars == <<uiVars, part, callerEntries, thisEntries, engine, host, entriesBefore, goal,
          progressData, progressBefore, now, xs, ys, result, repeat>>

NoResult == [op |-> "none", out |-> <<>>, at |-> 0]

IdleMood ==
  /\ callerEntries = <<>> /\ thisEntries = <<>> /\ engine = "none"
  /\ host = "insertion"
  /\ entriesBefore = <<>>
IdleGoal ==
  /\ goal = NoGoal /\ progressData = <<>> /\ progressBefore = <<>>
IdleStats == xs = <<>> /\ ys = <<>>
\* the null of a state that holds a string otherwise
Null == "null"
\* localStorage.getItem: null for a key that was never set, otherwise the
\* list that was written
NoItem == [set |-> FALSE, entries |-> <<>>]
Stored(list) == [set |-> TRUE, entries |-> list]
NoFormData == [date |-> 0, mood |-> 5]
IdlePage == goals = <<>> /\ progressByGoal = <<>>
\* existingEntry is <<>> for null and <<entry>> otherwise
IdleTracker ==
  /\ trackerEntries = <<>> /\ trackerError = Null /\ storage = NoItem
  /\ formData = NoFormData /\ existingEntry = <<>>
IdleUI == IdlePage /\ IdleTracker

InitMood ==
  /\ part = "mood"
  /\ \E n \in Lengths, ms \in 1..Len(Shapes), k \in 1..Len(Shapes),
        j \in 0..1, dp \in DatePatterns, miss \in MissingSets :
       callerEntries = MakeEntries(n, ms, k, j, dp, miss)
  /\ entriesBefore = callerEntries
  /\ thisEntries = <<>> /\ engine = "none"
  /\ host \in DistinctHosts(SortByDate(callerEntries))
  /\ IdleGoal /\ IdleStats
  /\ IdleUI
  /\ now = 0 /\ result = NoResult /\ repeat = "none"

InitWellness ==
  /\ part = "mood"
  /\ \E n \in LongLengths, u \in StepWidths, s \in StepSizes :
       callerEntries = StepEntries(n, u, s)
  /\ entriesBefore = callerEntries
  /\ thisEntries = <<>> /\ engine = "none"
  /\ host = "insertion"
  /\ IdleGoal /\ IdleStats
  /\ IdleUI
  /\ now = 0 /\ result = NoResult /\ repeat = "none"

InitWeekly ==
  /\ part = "mood"
  /\ \E high \in SUBSET (1..Len(DiaryDates)) :
       /\ Cardinality(high) <= MaxHigh
       /\ callerEntries = DiaryEntries(high)
  /\ entriesBefore = callerEntries
  /\ thisEntries = <<>> /\ engine = "none"
  /\ host = "insertion"
  /\ IdleGoal /\ IdleStats
  /\ IdleUI
  /\ now = 0 /\ result = NoResult /\ repeat = "none"

InitGoal ==
  /\ part = "goal"
  /\ goal \in Goals
  /\ progressData \in
       SeqsUpTo(MaxProgress, ProgressSamples)
  /\ progressBefore = progressData
  /\ IdleUI
  /\ now = Today
  /\ IdleMood /\ IdleStats
  /\ result = NoResult /\ repeat = "none"

InitStats ==
  /\ part = "stats"
  /\ xs \in SeqsUpTo(MaxVec, 0..MaxVal)
  /\ ys \in SeqsUpTo(MaxVec, 0..MaxVal)
  /\ IdleMood /\ IdleGoal
  /\ IdleUI
  /\ now = 0 /\ result = NoResult /\ repeat = "none"

(***************************************************************************)
(* Operations                                                              *)
(***************************************************************************)
\* record a call and compare it with the call made just before it
Record(op, out) ==
  /\ result' = [op |-> op, out |-> out, at |-> now]
  /\ repeat' = IF result.op # op THEN "none"
               ELSE IF result.out = out THEN "same"
               ELSE IF result.at # now THEN "differsLater"
               ELSE "differs"

\* new MoodAnalytics(entries): entries.sort(...) sorts the caller's array in
\* place and returns it, so this.entries is that same array
Construct ==
  /\ part = "mood"
  /\ callerEntries' = SortByDate(callerEntries)
  /\ thisEntries' = callerEntries'
  /\ engine' = "ready"
  /\ Record("new", <<>>)
  /\ UNCHANGED <<uiVars, part, host, entriesBefore, goal, progressData, progressBefore,
                 now, xs, ys>>

MoodFrame ==
  UNCHANGED <<uiVars, part, callerEntries, thisEntries, engine, host, entriesBefore, goal,
              progressData, progressBefore, now, xs, ys>>

CalculateCorrelations ==
  /\ engine = "ready"
  /\ Record("calculateCorrelations", calculateCorrelations(thisEntries))
  /\ MoodFrame

AnalyzeTrends ==
  /\ engine = "ready"
  /\ Record("analyzeTrends", analyzeTrends(thisEntries, host))
  /\ MoodFrame

GenerateOptimizations ==
  /\ engine = "ready"
  /\ Record("generateOptimizations", generateOptimizations(thisEntries))
  /\ MoodFrame

CalculateWellnessMetrics ==
  /\ engine = "ready"
  /\ Record("calculateWellnessMetrics", calculateWellnessMetrics(thisEntries))
  /\ MoodFrame

DetectWeeklyPatterns ==
  /\ engine = "ready"
  /\ Record("detectWeeklyPatterns", detectWeeklyPatterns(thisEntries))
  /\ MoodFrame

GenerateAdvancedInsights ==
  /\ engine = "ready"
  /\ Record("generateAdvancedInsights",
            generateAdvancedInsights(thisEntries, host))
  /\ MoodFrame

\* GoalOptimizer.calculateGoalMetrics(goal, progressData)
CalculateGoalMetrics ==
  /\ part = "goal"
  /\ LET computed == calculateGoalMetrics(goal, progressData, now)
     IN  /\ progressData' = computed.data
         /\ Record("calculateGoalMetrics", computed.metrics)
  /\ UNCHANGED <<uiVars, part, callerEntries, thisEntries, engine, host, entriesBefore, goal,
                 progressBefore, now, xs, ys>>

\* GoalOptimizer.analyzeGoalOptimization(goal, progressData, allGoals)
AnalyzeGoalOptimization ==
  /\ part = "goal"
  /\ LET computed == analyzeGoalOptimization(goal, progressData, now)
     IN  /\ progressData' = computed.data
         /\ Record("analyzeGoalOptimization", computed.analysis)
  /\ UNCHANGED <<uiVars, part, callerEntries, thisEntries, engine, host, entriesBefore, goal,
                 progressBefore, now, xs, ys>>

\* a week passes between two calls
Tick ==
  /\ part = "goal"
  /\ now = Today
  /\ now' = now + 7
  /\ UNCHANGED <<uiVars, part, callerEntries, thisEntries, engine, host, entriesBefore, goal,
                 progressData, progressBefore, xs, ys, result, repeat>>

StatsFrame ==
  UNCHANGED <<uiVars, part, callerEntries, thisEntries, engine, host, entriesBefore, goal,
              progressData, progressBefore, now, xs, ys>>

PearsonCorrelation ==
  /\ part = "stats"
  /\ Record("pearsonCorrelation", pearsonCorrelation(xs, ys))
  /\ StatsFrame

\* linearRegression is only called with two arrays mapped from the same
\* entries, so with equal lengths
LinearRegression ==
  /\ part = "stats"
  /\ Len(xs) = Len(ys)
  /\ Record("linearRegression", linearRegression(xs, ys))
  /\ StatsFrame

NextMood ==
  \/ Construct
  \/ CalculateCorrelations
  \/ AnalyzeTrends
  \/ GenerateOptimizations
  \/ CalculateWellnessMetrics
  \/ DetectWeeklyPatterns
  \/ GenerateAdvancedInsights

NextWeekly ==
  \/ Construct
  \/ DetectWeeklyPatterns

NextWellness ==
  \/ Construct
  \/ CalculateWellnessMetrics

NextGoal ==
  \/ CalculateGoalMetrics
  \/ AnalyzeGoalOptimization
  \/ Tick

NextStats ==
  \/ PearsonCorrelation
  \/ LinearRegression

SpecMood == InitMood /\ [][NextMood]_vars
SpecWellness == InitWellness /\ [][NextWellness]_vars
SpecWeekly == InitWeekly /\ [][NextWeekly]_vars
SpecGoal == InitGoal /\ [][NextGoal]_vars
SpecStats == InitStats /\ [][NextStats]_vars

Init == InitMood \/ InitGoal
Next == NextMood \/ NextGoal
Spec == Init /\ [][Next]_vars

(***************************************************************************)
(* GoalTrackerPage (app/goal-tracker/goals/page.tsx)                       *)
(***************************************************************************)
\* goals are created until each of GoalIds is taken and at most MaxUpdates
\* progress updates are made, over the days 0..MaxDay
GoalIds == {1, 2}
MaxUpdates == 2
MaxDay == 1
\* what the create dialog hands over: currentValue is 0 unless typed in
NewGoals ==
  {[targetValue |-> 10, currentValue |-> c, deadline |-> 30, status |-> "active"]
     : c \in {0, 12}}
\* the values typed into the progress field
UpdateValues == {0, 5, 10, 12}

\* prev[goalId] || []
ProgressOf(byGoal, goalId) ==
  IF goalId \in DOMAIN byGoal THEN byGoal[goalId] ELSE <<>>

\* the goal appended by handleCreateGoal; Date.now().toString() differs
\* between two creations, as does the position in the list
handleCreateGoal(newGoal, id, at) ==
  [id |-> id,
   targetValue |-> newGoal.targetValue,
   currentValue |-> newGoal.currentValue,
   deadline |-> newGoal.deadline,
   status |-> newGoal.status,
   createdAt |-> at,
   updatedAt |-> at,
   metrics |-> [completionRate |-> I(0),
                timeRemaining |-> I(newGoal.deadline - at),
                averageDailyProgress |-> I(0),
                projectedCompletion |-> I(newGoal.deadline),
                efficiencyScore |-> I(0),
                consistencyScore |-> Q(1, 4)]]

\* the goal returned by the updater of handleUpdateProgress for the goal
\* with the given id: the metrics are those of the goal as it was
UpdatedGoal(prevGoal, value, newMetrics, at) ==
  [prevGoal EXCEPT !.currentValue = value,
               !.updatedAt = at,
               !.metrics = newMetrics,
               !.status = IF Ge(newMetrics.completionRate, I(100))
                          THEN "completed" ELSE @]

handleUpdateProgress(prevGoals, byGoal, goalId, value, at) ==
  LET progress == [goalId |-> goalId, date |-> at, value |-> value]
      goalProgressData == Append(ProgressOf(byGoal, goalId), progress)
      Updated(prevGoal) ==
        UpdatedGoal(prevGoal, value,
                    calculateGoalMetrics(prevGoal, goalProgressData, at).metrics, at)
  IN  [progressData |->
         [id \in DOMAIN byGoal \cup {goalId} |->
            IF id = goalId THEN goalProgressData ELSE byGoal[id]],
       goals |->
         [i \in 1..Len(prevGoals) |->
            IF prevGoals[i].id = goalId THEN Updated(prevGoals[i])
            ELSE prevGoals[i]]]

InitPage ==
  /\ part = "page"
  /\ IdleUI
  /\ IdleMood /\ IdleGoal /\ IdleStats
  /\ now = 0 /\ result = NoResult /\ repeat = "none"

PageFrame ==
  UNCHANGED <<part, callerEntries, thisEntries, engine, host, entriesBefore,
              goal, progressData, progressBefore, xs, ys, trackerEntries,
              trackerError, storage, formData, existingEntry>>

HandleCreateGoal ==
  /\ part = "page"
  /\ Len(goals) < Cardinality(GoalIds)
  /\ \E newGoal \in NewGoals :
       /\ goals' = Append(goals, handleCreateGoal(newGoal, Len(goals) + 1, now))
       /\ Record("handleCreateGoal", goals)
  /\ UNCHANGED <<progressByGoal, now>>
  /\ PageFrame

\* the number of progress samples stored
UpdatesMade(byGoal) ==
  LET RECURSIVE Count(_)
      Count(ids) == IF ids = {} THEN 0
                    ELSE LET id == CHOOSE x \in ids : TRUE
                         IN  Len(byGoal[id]) + Count(ids \ {id})
  IN  Count(DOMAIN byGoal)

\* the call is recorded with the goals as they were before it
HandleUpdateProgress ==
  /\ part = "page"
  /\ UpdatesMade(progressByGoal) < MaxUpdates
  /\ \E goalId \in GoalIds, value \in UpdateValues :
       LET after == handleUpdateProgress(goals, progressByGoal, goalId, value, now)
       IN  /\ progressByGoal' = after.progressData
           /\ goals' = after.goals
           /\ Record("handleUpdateProgress",
                     [goalId |-> goalId, value |-> value, goals |-> goals])
  /\ UNCHANGED now
  /\ PageFrame

\* a day passes between two calls of a component
PassDay ==
  /\ part \in {"page", "form"}
  /\ now < MaxDay
  /\ now' = now + 1
  /\ UNCHANGED <<uiVars, part, callerEntries, thisEntries, engine, host,
                 entriesBefore, goal, progressData, progressBefore, xs, ys,
                 result, repeat>>

NextPage ==
  \/ HandleCreateGoal
  \/ HandleUpdateProgress
  \/ PassDay

SpecPage == InitPage /\ [][NextPage]_vars

(***************************************************************************)
(* useMoodTracker (hooks/useMoodTracker.ts).  An entry is [id, date, mood, *)
(* numeric]: date is a day number, or NotADate for a string that           *)
(* new Date() cannot read; numeric tells that mood, energy and stress are  *)
(* numbers.  localStorage holds what JSON.stringify wrote: the list        *)
(* itself, as its strings and finite numbers pass through JSON unchanged.  *)
(***************************************************************************)
NotADate == -1
\* new Date(date).getTime() is NaN
IsInvalidDate(date) == date = NotADate

\* comparefn: new Date(a.date).getTime() - new Date(b.date).getTime() < 0,
\* false when the difference is NaN
EntryBefore(a, b) ==
  /\ ~IsInvalidDate(a.date) /\ ~IsInvalidDate(b.date)
  /\ a.date < b.date

\* list.sort(comparefn) on the host
SortEntries(list, engineHost) ==
  IF Len(list) < 2 THEN list
  ELSE IF engineHost = "insertion" THEN SortBy(list, EntryBefore)
  ELSE SortV8(list, EntryBefore)

\* the entries state after the render that follows setEntries(list): the
\* wellnessMetrics memo runs new MoodAnalytics(entries) for a non-empty
\* list, and the constructor sorts the array of the state in place
Rendered(list, engineHost) ==
  IF Len(list) > 0 THEN SortEntries(list, engineHost) ELSE list

\* the filter of the mount effect
FilterSeq(list, keep) ==
  LET f[k \in 0..Len(list)] ==
        IF k = 0 THEN <<>>
        ELSE IF keep[k] THEN Append(f[k - 1], list[k]) ELSE f[k - 1]
  IN  f[Len(list)]

\* id: `${Date.now()}-${Math.random()...}`, an id no entry carries: the
\* least of the ids from 10 on that is not in the list
FreshId(list) ==
  CHOOSE id \in 10..(10 + Len(list)) :
    /\ \A i \in 1..Len(list) : list[i].id # id
    /\ \A other \in 10..(id - 1) : \E i \in 1..Len(list) : list[i].id = other

addEntry(list, formMood, at, engineHost) ==
  SortEntries(Append(list, [id |-> FreshId(list), date |-> at,
                            mood |-> formMood, numeric |-> TRUE]),
              engineHost)

\* updates is one field of Partial<MoodEntry>
updateEntry(list, id, updates) ==
  [i \in 1..Len(list) |->
     IF list[i].id = id
     THEN IF updates.field = "date" THEN [list[i] EXCEPT !.date = updates.value]
          ELSE [list[i] EXCEPT !.mood = updates.value]
     ELSE list[i]]

deleteEntry(list, id) ==
  FilterSeq(list, [i \in 1..Len(list) |-> list[i].id # id])

\* [...entries, ...newEntries]
Merged(list, validEntries) ==
  list \o FilterSeq(validEntries,
                    [i \in 1..Len(validEntries) |->
                       \A j \in 1..Len(list) : list[j].id # validEntries[i].id])

\* jsonData is [parses, isArray, entries]: whether JSON.parse reads it,
\* whether the object it gives has an array of entries, and that array
importData(list, jsonData, engineHost) ==
  LET Valid(importedEntries) ==
        FilterSeq(importedEntries,
                  [i \in 1..Len(importedEntries) |->
                     /\ importedEntries[i].id # 0
                     /\ importedEntries[i].numeric])
      FromValid(validEntries) ==
        IF Len(validEntries) = 0
        THEN [ok |-> FALSE, error |-> "No valid entries found in import data"]
        ELSE [ok |-> TRUE,
              entries |-> SortEntries(Merged(list, validEntries), engineHost)]
  IN  IF ~jsonData.parses
      THEN [ok |-> FALSE, error |-> "SyntaxError"]
      ELSE IF ~jsonData.isArray
      THEN [ok |-> FALSE, error |-> "Invalid data format"]
      ELSE FromValid(Valid(jsonData.entries))

\* the mount effect: the stored entries that pass its filter, sorted
LoadedEntries(savedEntries, engineHost) ==
  IF savedEntries.set
  THEN SortEntries(FilterSeq(savedEntries.entries,
                             [i \in 1..Len(savedEntries.entries) |->
                                /\ savedEntries.entries[i].id # 0
                                /\ savedEntries.entries[i].numeric]),
                   engineHost)
  ELSE <<>>

\* at most MaxEntries entries are kept
MaxEntries == 3
\* the lists found in localStorage at mount: an empty one and one written
\* newest first
StoredLists ==
  {<<>>,
   <<[id |-> 2, date |-> 2, mood |-> 5, numeric |-> TRUE],
     [id |-> 1, date |-> 0, mood |-> 5, numeric |-> TRUE]>>}
\* the entries of an imported file: a new one, one that carries the id of a
\* stored entry, one whose date cannot be read and one without numeric
\* measures
ImportItems ==
  {[id |-> 3, date |-> 1, mood |-> 5, numeric |-> TRUE],
   [id |-> 2, date |-> 1, mood |-> 5, numeric |-> TRUE],
   [id |-> 5, date |-> NotADate, mood |-> 5, numeric |-> TRUE],
   [id |-> 4, date |-> 1, mood |-> 5, numeric |-> FALSE]}
ImportFiles ==
  {[parses |-> FALSE, isArray |-> FALSE, entries |-> <<>>],
   [parses |-> TRUE, isArray |-> FALSE, entries |-> <<>>]}
  \cup {[parses |-> TRUE, isArray |-> TRUE, entries |-> items]
          : items \in {<<>>} \cup {<<a>> : a \in ImportItems}
                     \cup {<<a, b>> : a \in ImportItems, b \in ImportItems}}
\* the updates made: an entry is moved to a later day
EntryUpdates == {[field |-> "date", value |-> 3]}

\* the hook after the mount effect has loaded and sorted the stored list
InitTracker ==
  /\ part = "tracker"
  /\ storage \in {NoItem} \cup {Stored(list) : list \in StoredLists}
  /\ host \in Hosts
  /\ trackerEntries = Rendered(LoadedEntries(storage, host), host)
  /\ trackerError = Null
  /\ formData = NoFormData /\ existingEntry = <<>>
  /\ IdlePage
  /\ callerEntries = <<>> /\ thisEntries = <<>> /\ engine = "none"
  /\ entriesBefore = <<>>
  /\ IdleGoal /\ IdleStats
  /\ now = 0 /\ result = NoResult /\ repeat = "none"

TrackerFrame ==
  UNCHANGED <<part, callerEntries, thisEntries, engine, host, entriesBefore,
              goal, progressData, progressBefore, now, xs, ys, goals,
              progressByGoal, formData, existingEntry>>

\* saveEntries(newEntries) and the render it causes
SaveEntries(newEntries) ==
  /\ storage' = Stored(newEntries)
  /\ trackerEntries' = Rendered(newEntries, host)
  /\ trackerError' = Null

AddEntry ==
  /\ part = "tracker"
  /\ Len(trackerEntries) < MaxEntries
  /\ SaveEntries(addEntry(trackerEntries, 5, now, host))
  /\ Record("addEntry", <<>>)
  /\ TrackerFrame

UpdateEntry ==
  /\ part = "tracker"
  /\ \E i \in 1..Len(trackerEntries), updates \in EntryUpdates :
       SaveEntries(updateEntry(trackerEntries, trackerEntries[i].id, updates))
  /\ Record("updateEntry", <<>>)
  /\ TrackerFrame

DeleteEntry ==
  /\ part = "tracker"
  /\ \E i \in 1..Len(trackerEntries) :
       SaveEntries(deleteEntry(trackerEntries, trackerEntries[i].id))
  /\ Record("deleteEntry", <<>>)
  /\ TrackerFrame

ImportData ==
  /\ part = "tracker"
  /\ Len(trackerEntries) < MaxEntries
  /\ \E jsonData \in ImportFiles :
       LET returned == importData(trackerEntries, jsonData, host)
       IN  /\ IF returned.ok THEN SaveEntries(returned.entries)
              ELSE /\ trackerError' = returned.error
                   /\ UNCHANGED <<trackerEntries, storage>>
           /\ Record("importData",
                     [ok |-> returned.ok, before |-> trackerEntries])
  /\ TrackerFrame

NextTracker ==
  \/ AddEntry
  \/ UpdateEntry
  \/ DeleteEntry
  \/ ImportData

SpecTracker == InitTracker /\ [][NextTracker]_vars

(***************************************************************************)
(* DailyMoodEntry (the daily entry form).  The form reads and writes the   *)
(* same localStorage item as useMoodTracker.  formData is [date, mood];    *)
(* its date is NotADate when the date field has been cleared ('').         *)
(***************************************************************************)
\* comparefn: new Date(b.date).getTime() - new Date(a.date).getTime() < 0
EntryAfter(a, b) == EntryBefore(b, a)

\* entries.sort(comparefn): newest first
SortNewestFirst(list, engineHost) ==
  IF Len(list) < 2 THEN list
  ELSE IF engineHost = "insertion" THEN SortBy(list, EntryAfter)
  ELSE SortV8(list, EntryAfter)

\* the state left by checkExistingEntry(date), called by the effect on
\* formData.date: nothing changes when the item was never written
checkExistingEntry(savedEntries, data, existing, date) ==
  LET found == {i \in 1..Len(savedEntries.entries) :
                  savedEntries.entries[i].date = date}
  IN  IF ~savedEntries.set
      THEN [formData |-> data, existingEntry |-> existing]
      ELSE IF found # {}
      THEN [formData |-> [date |-> savedEntries.entries[MinOf(found)].date,
                          mood |-> savedEntries.entries[MinOf(found)].mood],
            existingEntry |-> <<savedEntries.entries[MinOf(found)]>>]
      ELSE [formData |-> [date |-> data.date, mood |-> 5],
            existingEntry |-> <<>>]

validateForm(data) ==
  /\ data.date # NotADate
  /\ data.mood >= 1 /\ data.mood <= 10

\* the list written by handleSubmit
SubmittedEntries(savedEntries, data, existing, engineHost) ==
  LET entries == IF savedEntries.set THEN savedEntries.entries ELSE <<>>
      entryData ==
        [id |-> IF existing # <<>> THEN existing[1].id ELSE FreshId(entries),
         date |-> data.date, mood |-> data.mood, numeric |-> TRUE]
  IN  SortNewestFirst(
        IF existing # <<>>
        THEN [i \in 1..Len(entries) |->
                IF entries[i].id = existing[1].id THEN entryData
                ELSE entries[i]]
        ELSE Append(entries, entryData),
        engineHost)

\* handleSubmit of a valid form, with the effect that follows a change of
\* the date: [storage, formData, existingEntry]
handleSubmit(savedEntries, data, existing, today, engineHost) ==
  LET Saved(written) ==
        IF existing = <<>> /\ data.date + 1 <= today
        THEN [storage |-> written] @@
             checkExistingEntry(written, [data EXCEPT !.date = data.date + 1],
                                existing, data.date + 1)
        ELSE [storage |-> written, formData |-> data,
              existingEntry |-> existing]
  IN  Saved(Stored(SubmittedEntries(savedEntries, data, existing, engineHost)))

\* the moods the slider is moved to
FormMoods == {5, 8}
\* the items found at mount: none, an empty list, an entry for today
FormStoredItems ==
  {NoItem, Stored(<<>>),
   Stored(<<[id |-> 1, date |-> 0, mood |-> 5, numeric |-> TRUE]>>)}

\* the form after mount: the date is today and the effect has run
InitForm ==
  /\ part = "form"
  /\ now = 0
  /\ storage \in FormStoredItems
  /\ host \in Hosts
  /\ formData = checkExistingEntry(storage, [date |-> now, mood |-> 5],
                                   <<>>, now).formData
  /\ existingEntry = checkExistingEntry(storage, [date |-> now, mood |-> 5],
                                        <<>>, now).existingEntry
  /\ trackerEntries = <<>> /\ trackerError = Null
  /\ IdlePage
  /\ callerEntries = <<>> /\ thisEntries = <<>> /\ engine = "none"
  /\ entriesBefore = <<>>
  /\ IdleGoal /\ IdleStats
  /\ result = NoResult /\ repeat = "none"

FormFrame ==
  UNCHANGED <<part, callerEntries, thisEntries, engine, host, entriesBefore,
              goal, progressData, progressBefore, now, xs, ys, goals,
              progressByGoal, trackerEntries, trackerError>>

\* the date field is changed, up to today or cleared, and the effect runs
ChangeDate ==
  /\ part = "form"
  /\ \E date \in (0..now) \cup {NotADate} :
       /\ date # formData.date
       /\ LET checked == checkExistingEntry(storage,
                                            [formData EXCEPT !.date = date],
                                            existingEntry, date)
          IN  /\ formData' = checked.formData
              /\ existingEntry' = checked.existingEntry
       /\ Record("changeDate", date)
  /\ UNCHANGED storage
  /\ FormFrame

HandleSliderChange ==
  /\ part = "form"
  /\ \E value \in FormMoods :
       /\ formData' = [formData EXCEPT !.mood = value]
       /\ Record("handleSliderChange", value)
  /\ UNCHANGED <<storage, existingEntry>>
  /\ FormFrame

\* the call is recorded with the date submitted and whether it was saved
HandleSubmit ==
  /\ part = "form"
  /\ IF validateForm(formData)
     THEN /\ storage.set /\ existingEntry = <<>>
               => Len(storage.entries) < MaxEntries
          /\ LET saved == handleSubmit(storage, formData, existingEntry, now, host)
             IN  /\ storage' = saved.storage
                 /\ formData' = saved.formData
                 /\ existingEntry' = saved.existingEntry
          /\ Record("handleSubmit", [date |-> formData.date, ok |-> TRUE])
     ELSE /\ UNCHANGED <<storage, formData, existingEntry>>
          /\ Record("handleSubmit", [date |-> formData.date, ok |-> FALSE])
  /\ FormFrame

NextForm ==
  \/ ChangeDate
  \/ HandleSliderChange
  \/ HandleSubmit
  \/ PassDay

SpecForm == InitForm /\ [][NextForm]_vars

(***************************************************************************)
(* Properties                                                              *)
(***************************************************************************)
IsConstant(s) == \A i, j \in 1..Len(s) : s[i] = s[j]

\* |r| < a/b, i.e. b^2 * num^2 < a^2 * den2
AbsBelow(r, a, b) == r.num * r.num <= ((a * a * r.den2) - 1) \div (b * b)

\* r = 1 and r = -1
IsPlusOne(r) == r.k = "fin" /\ r.num > 0 /\ r.num * r.num = r.den2
IsMinusOne(r) == r.k = "fin" /\ r.num < 0 /\ r.num * r.num = r.den2

\* C1: neither engine mutates the caller's collections: the caller's
\* entries array and progressData array hold the same elements in the same
\* order as before the calls.
C1_CallerCollectionsUnchanged ==
  /\ callerEntries = entriesBefore
  /\ progressData = progressBefore

\* C2: calculateCorrelations and generateOptimizations return an empty list
\* for fewer than 7 records, analyzeTrends and detectWeeklyPatterns for fewer
\* than 14; from the threshold on calculateCorrelations returns six results,
\* one per factor, and analyzeTrends seven, one per metric.
C2_ThresholdGatedResults ==
  LET n == Len(thisEntries)
      out == result.out
  IN  /\ result.op = "calculateCorrelations" =>
           IF n < 7 THEN out = <<>>
           ELSE /\ Len(out) = 6
                /\ {out[i].factor : i \in 1..Len(out)}
                     = {"Energy", "Stress", "Sleep", "Hydration", "Exercise",
                        "Nutrition"}
      /\ result.op = "generateOptimizations" => (n < 7 => out = <<>>)
      /\ result.op = "analyzeTrends" =>
           IF n < 14 THEN out = <<>>
           ELSE /\ Len(out) = 7
                /\ {out[i].metric : i \in 1..Len(out)} = Measures \cup {"mood"}
      /\ result.op = "detectWeeklyPatterns" => (n < 14 => out = <<>>)

\* calculateCorrelations has run on exactly 7 records and returned six results
C2_Witness ==
  /\ result.op = "calculateCorrelations"
  /\ Len(thisEntries) = 7
  /\ Len(result.out) = 6

\* C3 (as stated): a call that repeats the call made just before it on the
\* same arguments returns the same output.
C3_RepeatedCallAgrees == repeat \notin {"differs", "differsLater"}

\* C3 (amended): a call that repeats the call made just before it on the
\* same arguments returns the same output whenever the clock reads the same
\* at both calls.
C3_RepeatedCallAgreesAtSameTime == repeat # "differs"

\* calculateGoalMetrics has been called twice in a row, and the first call
\* reordered the caller's samples in between
C3_Witness ==
  /\ result.op = "calculateGoalMetrics"
  /\ repeat = "same"
  /\ progressData # progressBefore

\* the entries with every absent measure stored as 0
ZeroFilled(entries) ==
  [i \in 1..Len(entries) |->
     [id |-> entries[i].id, date |-> entries[i].date, mood |-> entries[i].mood,
      energy |-> IF "energy" \in entries[i].missing THEN 0 ELSE entries[i].energy,
      stress |-> IF "stress" \in entries[i].missing THEN 0 ELSE entries[i].stress,
      sleep |-> IF "sleep" \in entries[i].missing THEN 0 ELSE entries[i].sleep,
      hydration |-> IF "hydration" \in entries[i].missing THEN 0
                    ELSE entries[i].hydration,
      exercise |-> IF "exercise" \in entries[i].missing THEN 0
                   ELSE entries[i].exercise,
      nutrition |-> IF "nutrition" \in entries[i].missing THEN 0
                    ELSE entries[i].nutrition,
      missing |-> {}]]

\* C4: calculateCorrelations, analyzeTrends and calculateWellnessMetrics
\* treat a record's absent measure as the value 0: their output is the one
\* computed from the records with 0 stored for it, and every reported
\* average is a finite number.
C4_AbsentMeasureCountsAsZero ==
  /\ result.op = "calculateCorrelations" =>
       result.out = calculateCorrelations(ZeroFilled(thisEntries))
  /\ result.op = "analyzeTrends" =>
       result.out = analyzeTrends(ZeroFilled(thisEntries), host)
  /\ result.op = "calculateWellnessMetrics" =>
       /\ result.out = calculateWellnessMetrics(ZeroFilled(thisEntries))
       /\ \A a \in {result.out.averageMood, result.out.averageEnergy,
                    result.out.averageStress, result.out.averageSleep,
                    result.out.averageHydration, result.out.averageExercise,
                    result.out.averageNutrition} : IsFinite(a)

\* C5: linearRegression on a constant y series (over at least two distinct
\* x) returns slope 0 and R^2 = 0, never NaN.
C5_ConstantSeriesHasR2Zero ==
  (/\ result.op = "linearRegression"
   /\ Len(xs) >= 2 /\ ~IsConstant(xs)
   /\ IsConstant(ys)) =>
    /\ result.out.slope = I(0)
    /\ result.out.r2 = I(0)

\* C6: pearsonCorrelation returns r = 0 whenever the two sequences differ
\* in length, have fewer than 3 elements, or one of them is constant (zero
\* denominator); for fewer than 3 elements it also returns p = 1.
C6_DegenerateInputGivesZero ==
  result.op = "pearsonCorrelation" =>
    /\ (Len(xs) # Len(ys) \/ Len(xs) < 3 \/ IsConstant(xs) \/ IsConstant(ys))
         => result.out.r = RZero
    /\ Len(xs) < 3 => result.out.p = "one"

\* C7: for equal-length sequences of length >= 3 with non-zero denominator
\* (neither sequence constant), -1 <= r <= 1, that is numerator^2 <=
\* denominator^2; r = 1 when y is a positive multiple of x and r = -1 when
\* y is a decreasing linear function of x.
C7_CorrelationWithinBounds ==
  (/\ result.op = "pearsonCorrelation"
   /\ Len(xs) = Len(ys) /\ Len(xs) >= 3
   /\ ~IsConstant(xs) /\ ~IsConstant(ys)) =>
    LET r == result.out.r
        n == Len(xs)
    IN  /\ r.k = "fin"
        /\ r.den2 > 0
        /\ r.num * r.num <= r.den2
        /\ (\E c \in 1..MaxVal : ys = [i \in 1..n |-> c * xs[i]])
             => IsPlusOne(r)
        /\ (\E a \in 0..2 * MaxVal, b \in 1..MaxVal :
              ys = [i \in 1..n |-> a - b * xs[i]])
             => IsMinusOne(r)

\* pearsonCorrelation has run on a decreasing linear y and returned r = -1
C7_Witness ==
  /\ result.op = "pearsonCorrelation"
  /\ Len(xs) >= 3
  /\ \E a \in 0..2 * MaxVal, b \in 1..MaxVal :
       ys = [i \in 1..Len(xs) |-> a - b * xs[i]]
  /\ IsMinusOne(result.out.r)

\* C8: each result of calculateCorrelations is labelled from |r| and the
\* sign of r: negligible iff |r| < 0.1, weak iff 0.1 <= |r| < 0.3, moderate
\* iff 0.3 <= |r| < 0.5, strong iff |r| >= 0.5; the suffix is positive iff
\* r > 0 and negative iff r < 0.
C8_LabelMatchesCoefficient ==
  result.op = "calculateCorrelations" =>
    \A i \in 1..Len(result.out) :
      LET r == result.out[i].correlation
          label == result.out[i].interpretation
      IN  /\ r.k = "fin"
          /\ label \in {"strong_positive", "moderate_positive", "weak_positive",
                        "weak_negative", "moderate_negative", "strong_negative",
                        "negligible"}
          /\ (label = "negligible") <=> AbsBelow(r, 1, 10)
          /\ (label \in {"weak_positive", "weak_negative"})
               <=> (~AbsBelow(r, 1, 10) /\ AbsBelow(r, 3, 10))
          /\ (label \in {"moderate_positive", "moderate_negative"})
               <=> (~AbsBelow(r, 3, 10) /\ AbsBelow(r, 1, 2))
          /\ (label \in {"strong_positive", "strong_negative"})
               <=> ~AbsBelow(r, 1, 2)
          /\ (label \in {"strong_positive", "moderate_positive", "weak_positive"})
               => r.num > 0
          /\ (label \in {"strong_negative", "moderate_negative", "weak_negative"})
               => r.num < 0

\* one call of calculateCorrelations has produced a weak, a moderate and a
\* strong label, of both signs
C8_Witness ==
  /\ result.op = "calculateCorrelations"
  /\ LET labels == {result.out[i].interpretation : i \in 1..Len(result.out)}
     IN  /\ labels \cap {"weak_positive", "weak_negative"} # {}
         /\ labels \cap {"moderate_positive", "moderate_negative"} # {}
         /\ labels \cap {"strong_positive", "strong_negative"} # {}
         /\ labels \cap {"strong_positive", "moderate_positive", "weak_positive"} # {}
         /\ labels \cap {"strong_negative", "moderate_negative", "weak_negative"} # {}

\* position of a factor in the declaration order of calculateCorrelations
FactorIndex(name) ==
  CHOOSE i \in 1..Len(factors) : Capitalize(factors[i]) = name

\* C9: the list returned by calculateCorrelations is ordered by
\* non-increasing |correlation|, and results with equal |correlation| keep
\* the declaration order of their factors.
C9_SortedByAbsCorrelation ==
  result.op = "calculateCorrelations" =>
    LET out == result.out
    IN  /\ \A i \in 1..Len(out) - 1 :
             ~AbsRLess(out[i].correlation, out[i + 1].correlation)
        /\ \A i, j \in 1..Len(out) :
             (/\ i < j
              /\ ~AbsRLess(out[i].correlation, out[j].correlation)
              /\ ~AbsRLess(out[j].correlation, out[i].correlation))
               => FactorIndex(out[i].factor) < FactorIndex(out[j].factor)

\* calculateCorrelations has returned a list in which two results tie on a
\* non-zero |r|, the largest |r| exceeds the smallest, and the factors are
\* not in declaration order
C9_Witness ==
  /\ result.op = "calculateCorrelations"
  /\ Len(result.out) = 6
  /\ LET out == result.out
     IN  /\ AbsRLess(out[6].correlation, out[1].correlation)
         /\ \E i \in 1..5 :
              /\ out[i].correlation.num # 0
              /\ ~AbsRLess(out[i + 1].correlation, out[i].correlation)
         /\ \E i \in 1..5 :
              FactorIndex(out[i].factor) > FactorIndex(out[i + 1].factor)

\* the slope analyzeTrends fits for a metric
SlopeOf(entries, metric) ==
  linearRegression([i \in 1..Len(entries) |-> entries[i].date - entries[1].date],
                   [i \in 1..Len(entries) |-> getEntryValue(entries[i], metric)]).slope

\* C10: for every metric reported by analyzeTrends, magnitude = |slope * 7|,
\* direction is stable iff magnitude < 0.1, otherwise increasing iff the
\* slope is positive and decreasing iff it is negative; a metric that is
\* constant over the records is stable.
C10_DirectionFollowsSlope ==
  result.op = "analyzeTrends" =>
    \A i \in 1..Len(result.out) :
      LET t == result.out[i]
          slope == SlopeOf(thisEntries, t.metric)
          values == [e \in 1..Len(thisEntries) |->
                       getEntryValue(thisEntries[e], t.metric)]
      IN  /\ t.magnitude = Abs(Mul(slope, I(7)))
          /\ (t.direction = "stable") <=> Lt(t.magnitude, Q(1, 10))
          /\ (t.direction = "increasing")
               <=> (~Lt(t.magnitude, Q(1, 10)) /\ Gt(slope, I(0)))
          /\ (t.direction = "decreasing")
               <=> (~Lt(t.magnitude, Q(1, 10)) /\ Lt(slope, I(0)))
          /\ IsConstant(values) => t.direction = "stable"

\* C11: the list analyzeTrends returns for at least 14 records is ordered by
\* non-increasing significance (R squared): the significance of every trend
\* is >= that of the trend after it, also when a metric is constant or all
\* records share one date.
C11_SortedBySignificance ==
  (result.op = "analyzeTrends" /\ Len(thisEntries) >= 14) =>
    \A i \in 1..Len(result.out) - 1 :
      Ge(result.out[i].significance, result.out[i + 1].significance)

\* the weekdays (0 = Sunday) on which some entry was recorded
ObservedDays(entries) == {entries[i].date % 7 : i \in 1..Len(entries)}

\* the mean mood of the entries recorded on weekday d
MeanMood(entries, d) ==
  LET OnDay == {i \in 1..Len(entries) : entries[i].date % 7 = d}
  IN  Q(SumSeq([i \in 1..Len(entries) |->
                  IF i \in OnDay THEN entries[i].mood ELSE 0]),
        Cardinality(OnDay))

\* the highest and the lowest mean mood over the observed weekdays
MaxMean(entries) ==
  LET hi == CHOOSE d \in ObservedDays(entries) :
              \A e \in ObservedDays(entries) :
                Ge(MeanMood(entries, d), MeanMood(entries, e))
  IN  MeanMood(entries, hi)
MinMean(entries) ==
  LET lo == CHOOSE d \in ObservedDays(entries) :
              \A e \in ObservedDays(entries) :
                Le(MeanMood(entries, d), MeanMood(entries, e))
  IN  MeanMood(entries, lo)
MeanSpread(entries) == Sub(MaxMean(entries), MinMean(entries))

\* C12: with at least 14 records detectWeeklyPatterns returns no pattern
\* when fewer than 4 distinct weekdays have an observation or when the
\* highest weekday mean exceeds the lowest by less than 0.5, and exactly one
\* pattern otherwise; the means are those of the observed weekdays only, so
\* the reported variation is their spread.
C12_OnePatternIffSpread ==
  (result.op = "detectWeeklyPatterns" /\ Len(thisEntries) >= 14) =>
    IF Cardinality(ObservedDays(thisEntries)) < 4
       \/ Lt(MeanSpread(thisEntries), Q(1, 2))
    THEN result.out = <<>>
    ELSE /\ Len(result.out) = 1
         /\ result.out[1].variation = MeanSpread(thisEntries)

\* a pattern is returned although some weekday has no observation
C12_Witness ==
  /\ result.op = "detectWeeklyPatterns" /\ Len(thisEntries) >= 14
  /\ Cardinality(ObservedDays(thisEntries)) \in 4..6
  /\ Len(result.out) = 1
\* no pattern because too few weekdays are observed
C12_WitnessFewDays ==
  /\ result.op = "detectWeeklyPatterns" /\ Len(thisEntries) >= 14
  /\ Cardinality(ObservedDays(thisEntries)) < 4
  /\ result.out = <<>>
\* no pattern because the means are too close
C12_WitnessFlat ==
  /\ result.op = "detectWeeklyPatterns" /\ Len(thisEntries) >= 14
  /\ Cardinality(ObservedDays(thisEntries)) >= 4
  /\ result.out = <<>>
\* a pattern with every weekday observed
C12_WitnessAllDays ==
  /\ result.op = "detectWeeklyPatterns" /\ Len(thisEntries) >= 14
  /\ Cardinality(ObservedDays(thisEntries)) = 7
  /\ Len(result.out) = 1

\* the elements of a list of weekday names
DaySet(days) == {days[i] : i \in 1..Len(days)}

\* C13: in a returned pattern peakDays lists, once each, exactly the
\* observed weekdays whose mean mood is >= max - 0.3 and lowDays exactly
\* those whose mean is <= min + 0.3, so both are non-empty and hold the
\* weekdays attaining max and min; strength = min(1, variation / 3), which
\* lies in [1/6, 1].
C13_PeakAndLowDays ==
  (result.op = "detectWeeklyPatterns" /\ result.out # <<>>) =>
    LET pattern == result.out[1]
        peak == {d \in ObservedDays(thisEntries) :
                   Ge(MeanMood(thisEntries, d),
                      Sub(MaxMean(thisEntries), Q(3, 10)))}
        low == {d \in ObservedDays(thisEntries) :
                  Le(MeanMood(thisEntries, d),
                     Add(MinMean(thisEntries), Q(3, 10)))}
    IN  /\ DaySet(pattern.peakDays) = {WeekDays[d + 1] : d \in peak}
        /\ Len(pattern.peakDays) = Cardinality(peak)
        /\ DaySet(pattern.lowDays) = {WeekDays[d + 1] : d \in low}
        /\ Len(pattern.lowDays) = Cardinality(low)
        /\ pattern.peakDays # <<>> /\ pattern.lowDays # <<>>
        /\ \A d \in ObservedDays(thisEntries) :
             /\ MeanMood(thisEntries, d) = MaxMean(thisEntries)
                  => WeekDays[d + 1] \in DaySet(pattern.peakDays)
             /\ MeanMood(thisEntries, d) = MinMean(thisEntries)
                  => WeekDays[d + 1] \in DaySet(pattern.lowDays)
        /\ pattern.strength
             = MathMin(I(1), Div(MeanSpread(thisEntries), I(3)))
        /\ Ge(pattern.strength, Q(1, 6)) /\ Le(pattern.strength, I(1))

\* a pattern of strength below 1 with a weekday that is neither peak nor low
C13_Witness ==
  /\ result.op = "detectWeeklyPatterns" /\ result.out # <<>>
  /\ Lt(result.out[1].strength, I(1))
  /\ Len(result.out[1].peakDays) + Len(result.out[1].lowDays)
       < Cardinality(ObservedDays(thisEntries))
\* a pattern whose variation exceeds 3, so that strength is capped at 1
C13_WitnessCapped ==
  /\ result.op = "detectWeeklyPatterns" /\ result.out # <<>>
  /\ Gt(result.out[1].variation, I(3))
\* a pattern with a peak day that does not attain the maximum
C13_WitnessNearPeak ==
  /\ result.op = "detectWeeklyPatterns" /\ result.out # <<>>
  /\ Len(result.out[1].peakDays) + Len(result.out[1].lowDays)
       > Cardinality({d \in ObservedDays(thisEntries) :
                        \/ MeanMood(thisEntries, d) = MaxMean(thisEntries)
                        \/ MeanMood(thisEntries, d) = MinMean(thisEntries)})

\* category of the suggestion generateOptimizations builds for a factor
CategoryOf(f) == IF f = "energy" THEN "lifestyle" ELSE f

\* the positions of the suggestions made for factor f
SuggestionsFor(suggestions, f) ==
  {i \in 1..Len(suggestions) : suggestions[i].category = CategoryOf(f)}

\* the correlations of factor f that pass both thresholds:
\* |r| >= 0.1 and p < 0.05
SignificantFor(correlations, f) ==
  {i \in 1..Len(correlations) :
     /\ correlations[i].factor = Capitalize(f)
     /\ AbsRGeq(correlations[i].correlation, <<1, 10>>)
     /\ BelowConfidence(correlations[i])}

\* C14: generateOptimizations emits exactly one suggestion for a factor iff
\* that factor's correlation has |r| >= 0.1 and p-value < 0.05, and none
\* otherwise; its category is the factor name, except that energy maps to
\* lifestyle, and basedOnCorrelation is that factor's r.
C14_SuggestionIffSignificant ==
  result.op = "generateOptimizations" =>
    /\ \A i \in 1..Len(result.out) :
         \E k \in 1..Len(factors) :
           result.out[i].category = CategoryOf(factors[k])
    /\ \A k \in 1..Len(factors) :
         LET significant ==
               SignificantFor(calculateCorrelations(thisEntries), factors[k])
             made == SuggestionsFor(result.out, factors[k])
         IN  /\ Cardinality(made) = IF significant # {} THEN 1 ELSE 0
             /\ \A i \in made, c \in significant :
                  result.out[i].basedOnCorrelation
                    = calculateCorrelations(thisEntries)[c].correlation

\* a lifestyle suggestion is made while another factor, whose correlation
\* is at least weak but not significant, gets none
C14_Witness ==
  /\ result.op = "generateOptimizations"
  /\ SuggestionsFor(result.out, "energy") # {}
  /\ \E k \in 1..Len(factors) :
       /\ SuggestionsFor(result.out, factors[k]) = {}
       /\ \E c \in 1..Len(calculateCorrelations(thisEntries)) :
            /\ calculateCorrelations(thisEntries)[c].factor
                 = Capitalize(factors[k])
            /\ AbsRGeq(calculateCorrelations(thisEntries)[c].correlation,
                       <<1, 10>>)

\* C15: every suggestion generateOptimizations makes for stress has
\* priority 1, and so has every suggestion for a factor whose correlation is
\* a strong effect (|r| >= 0.5).
C15_StressAndStrongFirst ==
  result.op = "generateOptimizations" =>
    \A i \in 1..Len(result.out) :
      (\/ result.out[i].category = "stress"
       \/ AbsRGeq(result.out[i].basedOnCorrelation, <<1, 2>>))
        => result.out[i].priority = 1

\* C16: the list generateOptimizations returns is ordered by priority
\* ascending and, among suggestions of equal priority, by expectedImpact
\* descending.
C16_SortedByPriorityThenImpact ==
  result.op = "generateOptimizations" =>
    \A i \in 1..Len(result.out) - 1 :
      /\ result.out[i].priority <= result.out[i + 1].priority
      /\ result.out[i].priority = result.out[i + 1].priority
           => ~ImpactLess(result.out[i], result.out[i + 1])

\* suggestions of two priorities, two of them of one priority and of
\* different expectedImpact
C16_Witness ==
  /\ result.op = "generateOptimizations"
  /\ \E i, j \in 1..Len(result.out) :
       result.out[i].priority < result.out[j].priority
  /\ \E i \in 1..Len(result.out) - 1 :
       /\ result.out[i].priority = result.out[i + 1].priority
       /\ ImpactLess(result.out[i + 1], result.out[i])

\* the mean mood of the entries at the positions from..to, as a rational
WindowMean(entries, from, to) ==
  Q(SumSeq([i \in 1..(to - from + 1) |-> entries[from + i - 1].mood]),
    to - from + 1)

\* first position of the last k entries
LastFrom(entries, k) == IF Len(entries) > k THEN Len(entries) - k + 1 ELSE 1

\* mean mood of the most recent 14 records minus that of the 14 before them
WindowDifference(entries) ==
  Sub(WindowMean(entries, LastFrom(entries, 14), Len(entries)),
      WindowMean(entries, LastFrom(entries, 28), Len(entries) - 14))

\* both windows hold at least 7 records
WindowsFilled(entries) ==
  /\ Len(entries) - LastFrom(entries, 14) + 1 >= 7
  /\ (Len(entries) - 14) - LastFrom(entries, 28) + 1 >= 7

\* C17: calculateWellnessMetrics reports improvementTrend improving iff the
\* most recent 14 records and the 14 before them both hold at least 7
\* records and mean recent mood - mean older mood > 0.3, declining iff both
\* hold at least 7 and the difference is < -0.3, and stable otherwise; so
\* with fewer than 21 records the trend is stable.
C17_TrendFollowsWindowDifference ==
  (result.op = "calculateWellnessMetrics" /\ thisEntries # <<>>) =>
    /\ result.out.improvementTrend = "improving"
         <=> (/\ WindowsFilled(thisEntries)
              /\ Gt(WindowDifference(thisEntries), Q(3, 10)))
    /\ result.out.improvementTrend = "declining"
         <=> (/\ WindowsFilled(thisEntries)
              /\ Lt(WindowDifference(thisEntries), Q(-3, 10)))
    /\ result.out.improvementTrend \in {"improving", "declining", "stable"}
    /\ Len(thisEntries) < 21 => result.out.improvementTrend = "stable"

\* improving with a history longer than both windows
C17_Witness ==
  /\ result.op = "calculateWellnessMetrics"
  /\ result.out.improvementTrend = "improving"
  /\ Len(thisEntries) > 28
C17_WitnessDeclining ==
  /\ result.op = "calculateWellnessMetrics"
  /\ result.out.improvementTrend = "declining"
\* stable although the recent mean is higher, the windows being filled
C17_WitnessSmallRise ==
  /\ result.op = "calculateWellnessMetrics"
  /\ result.out.improvementTrend = "stable"
  /\ WindowsFilled(thisEntries)
  /\ Gt(WindowDifference(thisEntries), I(0))
\* stable because the older window holds fewer than 7 records
C17_WitnessShortHistory ==
  /\ result.op = "calculateWellnessMetrics"
  /\ result.out.improvementTrend = "stable"
  /\ Len(thisEntries) = 20
  /\ Gt(WindowDifference(thisEntries), Q(3, 10))

\* the rate that reaches the target exactly at the deadline
TheoreticalRate(g) == Q(g.targetValue, g.deadline - g.createdAt)

\* C18: for a goal with positive target and deadline after creation, the
\* efficiencyScore calculateGoalMetrics returns never exceeds 100, and it is
\* exactly 100 whenever the actual daily rate is at least the theoretical
\* rate target / totalPlannedDays.
C18_EfficiencyCappedAt100 ==
  (/\ result.op = "calculateGoalMetrics"
   /\ goal.targetValue > 0 /\ goal.deadline > goal.createdAt) =>
    /\ ~Gt(result.out.efficiencyScore, I(100))
    /\ Ge(result.out.averageDailyProgress, TheoreticalRate(goal))
         => result.out.efficiencyScore = I(100)

\* the actual rate is at least twice the theoretical rate
C18_Witness ==
  /\ result.op = "calculateGoalMetrics"
  /\ Ge(result.out.averageDailyProgress,
        Mul(I(2), TheoreticalRate(goal)))
  /\ result.out.efficiencyScore = I(100)
\* the actual rate is positive and below the theoretical rate
C18_WitnessBelow ==
  /\ result.op = "calculateGoalMetrics"
  /\ Gt(result.out.averageDailyProgress, I(0))
  /\ Lt(result.out.efficiencyScore, I(100))

\* the changes between consecutive samples, a negative change counted as 0
PositiveDeltas(data) ==
  [i \in 1..Len(data) - 1 |->
     IF data[i + 1].value > data[i].value
     THEN data[i + 1].value - data[i].value ELSE 0]

\* mean and variance of a non-empty sequence of integers
MeanOf(s) == Q(SumSeq(s), Len(s))
VarianceOf(s) ==
  Q(Len(s) * SumSquares(s) - SumSeq(s) * SumSeq(s), Len(s) * Len(s))

\* (stddev / mean)^2, NaN for 0 / 0
CvSquared(s) == Div(VarianceOf(s), Mul(MeanOf(s), MeanOf(s)))

\* a consistencyScore kept as cv2 lies in [0, 100] iff cv2 is a number >= 0
ScoreInRange(cv2) == IsFinite(cv2) /\ Ge(cv2, I(0))

\* C19: consistencyScore is 50 (cv2 = 1/4) with fewer than 3 progress
\* samples; with 3 or more it is max(0, 100 - CV * 100) where CV is
\* stddev / mean of the changes between consecutive samples, negative
\* changes counted as 0; in every case it lies in [0, 100].
C19_ConsistencyFromCV ==
  result.op = "calculateGoalMetrics" =>
    /\ Len(progressData) < 3 => result.out.consistencyScore = Q(1, 4)
    /\ Len(progressData) >= 3 =>
         result.out.consistencyScore = CvSquared(PositiveDeltas(progressData))
    /\ ScoreInRange(result.out.consistencyScore)

\* C19 as the code has it: when no change is positive the mean is 0, CV is
\* taken as 1 and the score is 0.
C19_ConsistencyFromCVOrZero ==
  result.op = "calculateGoalMetrics" =>
    /\ Len(progressData) < 3 => result.out.consistencyScore = Q(1, 4)
    /\ Len(progressData) >= 3 =>
         result.out.consistencyScore
           = IF Gt(MeanOf(PositiveDeltas(progressData)), I(0))
             THEN CvSquared(PositiveDeltas(progressData))
             ELSE I(1)
    /\ ScoreInRange(result.out.consistencyScore)

\* samples with a negative change and a score strictly inside (0, 100)
C19_Witness ==
  /\ result.op = "calculateGoalMetrics"
  /\ Len(progressData) >= 3
  /\ \E i \in 1..Len(progressData) - 1 :
       progressData[i + 1].value < progressData[i].value
  /\ Gt(result.out.consistencyScore, I(0))
  /\ Lt(result.out.consistencyScore, I(1))
\* samples whose CV exceeds 1: the score is 0, not negative
C19_WitnessClamped ==
  /\ result.op = "calculateGoalMetrics"
  /\ Len(progressData) >= 3
  /\ Gt(result.out.consistencyScore, I(1))
\* three samples without a positive change: the score is 0
C19_WitnessFlat ==
  /\ result.op = "calculateGoalMetrics"
  /\ Len(progressData) >= 3
  /\ MeanOf(PositiveDeltas(progressData)) = I(0)
  /\ result.out.consistencyScore = I(1)

\* the arrays that hold the samples of data in some order
Reorderings(data) ==
  {[i \in 1..Len(data) |-> data[f[i]]] : f \in Permutations(1..Len(data))}

\* sum of the value changes, and of the days, over the consecutive pairs of
\* data that are more than 0 days apart
PooledProgress(data) ==
  SumSeq([i \in 1..Len(data) - 1 |->
            IF data[i + 1].date > data[i].date
            THEN data[i + 1].value - data[i].value ELSE 0])
PooledDays(data) ==
  SumSeq([i \in 1..Len(data) - 1 |->
            IF data[i + 1].date > data[i].date
            THEN data[i + 1].date - data[i].date ELSE 0])

\* C20: with at least 2 progress samples averageDailyProgress is the pooled
\* rate, the sum of the value changes over the consecutive time-sorted pairs
\* more than 0 days apart divided by the sum of their days, and it and
\* consistencyScore are the same for every order in which the same samples
\* are handed over, also when two samples share a timestamp.
C20_PooledRateOfAnyOrder ==
  (result.op = "calculateGoalMetrics" /\ Len(progressData) >= 2) =>
    /\ PooledDays(progressData) > 0 =>
         result.out.averageDailyProgress
           = Q(PooledProgress(progressData), PooledDays(progressData))
    /\ \A other \in Reorderings(progressBefore) :
         /\ calculateGoalMetrics(goal, other, now).metrics.averageDailyProgress
              = result.out.averageDailyProgress
         /\ calculateGoalMetrics(goal, other, now).metrics.consistencyScore
              = result.out.consistencyScore

\* C20 for samples of which no two share a timestamp
C20_PooledRateOfAnyOrderDistinctTimes ==
  (/\ result.op = "calculateGoalMetrics" /\ Len(progressData) >= 2
   /\ \A i, j \in 1..Len(progressData) :
        i # j => progressData[i].date # progressData[j].date) =>
    /\ result.out.averageDailyProgress
         = Q(PooledProgress(progressData), PooledDays(progressData))
    /\ \A other \in Reorderings(progressBefore) :
         /\ calculateGoalMetrics(goal, other, now).metrics.averageDailyProgress
              = result.out.averageDailyProgress
         /\ calculateGoalMetrics(goal, other, now).metrics.consistencyScore
              = result.out.consistencyScore

\* the metrics the latest call computed: those of the goal and the samples
\* at the time of the call
MetricsAtCall == calculateGoalMetrics(goal, progressData, result.at).metrics

\* the elements of a list
ElementsOf(list) == {list[i] : i \in 1..Len(list)}

\* C21: analyzeGoalOptimization reports each bottleneck exactly when its
\* rule holds: low progress rate iff efficiencyScore < 50; high variability
\* iff consistencyScore < 40 (CV > 0.6); time constraint iff timeRemaining
\* < 7 days and completionRate < 80; stagnation iff the goal has a progress
\* sample and none dated within the trailing 7 days; and nothing else is
\* reported.
C21_BottleneckIffRule ==
  result.op = "analyzeGoalOptimization" =>
    /\ "Low progress rate" \in ElementsOf(result.out.bottlenecks)
         <=> Lt(MetricsAtCall.efficiencyScore, I(50))
    /\ "High variability in progress" \in ElementsOf(result.out.bottlenecks)
         <=> Gt(MetricsAtCall.consistencyScore, Q(36, 100))
    /\ "Time constraint" \in ElementsOf(result.out.bottlenecks)
         <=> (/\ Lt(MetricsAtCall.timeRemaining, I(7))
              /\ Lt(MetricsAtCall.completionRate, I(80)))
    /\ "Progress stagnation" \in ElementsOf(result.out.bottlenecks)
         <=> (/\ progressData # <<>>
              /\ \A i \in 1..Len(progressData) :
                   result.at - progressData[i].date >= 7)
    /\ ElementsOf(result.out.bottlenecks)
         \subseteq {"Low progress rate", "High variability in progress",
                    "Time constraint", "Progress stagnation"}
    /\ Len(result.out.bottlenecks)
         = Cardinality(ElementsOf(result.out.bottlenecks))

\* stagnation and time constraint are reported, low progress rate is not
C21_Witness ==
  /\ result.op = "analyzeGoalOptimization"
  /\ ElementsOf(result.out.bottlenecks)
       = {"Time constraint", "Progress stagnation"}
\* all four bottlenecks at once
C21_WitnessAll ==
  /\ result.op = "analyzeGoalOptimization"
  /\ Len(result.out.bottlenecks) = 4
\* no bottleneck although there are samples
C21_WitnessNone ==
  /\ result.op = "analyzeGoalOptimization"
  /\ progressData # <<>>
  /\ result.out.bottlenecks = <<>>
\* only high variability
C21_WitnessVariability ==
  /\ result.op = "analyzeGoalOptimization"
  /\ result.out.bottlenecks = <<"High variability in progress">>

\* the types of the recommendations of a list
TypesOf(recommendations) ==
  {recommendations[i].type : i \in 1..Len(recommendations)}

\* C22: analyzeGoalOptimization recommends increase_frequency iff
\* efficiencyScore < 60, add_support iff consistencyScore < 50 (CV > 0.5)
\* and adjust_target iff completionRate > 80 and timeRemaining > 30 days;
\* the recommendations are sorted by priority ascending and hold at most one
\* recommendation of each type.
C22_RecommendationIffRule ==
  result.op = "analyzeGoalOptimization" =>
    /\ "increase_frequency" \in TypesOf(result.out.recommendations)
         <=> Lt(MetricsAtCall.efficiencyScore, I(60))
    /\ "add_support" \in TypesOf(result.out.recommendations)
         <=> Gt(MetricsAtCall.consistencyScore, Q(1, 4))
    /\ "adjust_target" \in TypesOf(result.out.recommendations)
         <=> (/\ Gt(MetricsAtCall.completionRate, I(80))
              /\ Gt(MetricsAtCall.timeRemaining, I(30)))
    /\ TypesOf(result.out.recommendations)
         \subseteq {"increase_frequency", "add_support", "adjust_target"}
    /\ \A i \in 1..Len(result.out.recommendations) - 1 :
         result.out.recommendations[i].priority
           <= result.out.recommendations[i + 1].priority
    /\ Len(result.out.recommendations)
         = Cardinality(TypesOf(result.out.recommendations))

\* all three recommendations are made
C22_Witness ==
  /\ result.op = "analyzeGoalOptimization"
  /\ Len(result.out.recommendations) = 3
\* only adjust_target
C22_WitnessAdjustOnly ==
  /\ result.op = "analyzeGoalOptimization"
  /\ TypesOf(result.out.recommendations) = {"adjust_target"}
\* no recommendation
C22_WitnessNone ==
  /\ result.op = "analyzeGoalOptimization"
  /\ result.out.recommendations = <<>>

\* the goals addressed by the latest handleUpdateProgress, after and before
UpdatedIndexes ==
  {i \in 1..Len(goals) : goals[i].id = result.out.goalId}

\* C23: after handleUpdateProgress(goalId, value) the stored metrics of the
\* goal equal the metrics recomputed from the goal's updated state and its
\* progress samples; in particular completionRate is value / targetValue
\* x 100 and currentValue is value.
C23_MetricsNeverStale ==
  result.op = "handleUpdateProgress" /\ result.at = now =>
    \A i \in UpdatedIndexes :
      /\ goals[i].currentValue = result.out.value
      /\ goals[i].metrics.completionRate
           = Mul(Div(I(result.out.value), I(goals[i].targetValue)), I(100))
      /\ goals[i].metrics
           = calculateGoalMetrics(goals[i],
                                  ProgressOf(progressByGoal, goals[i].id),
                                  now).metrics

\* an update was applied to a goal
C23_Witness ==
  /\ result.op = "handleUpdateProgress"
  /\ UpdatedIndexes # {}

\* C25: after handleUpdateProgress(goalId, value) with value >= targetValue
\* the goal is COMPLETED, and a goal whose currentValue is below its target
\* after the update is not newly marked COMPLETED by it.
C25_CompletedIffTargetReached ==
  result.op = "handleUpdateProgress" =>
    \A i \in UpdatedIndexes :
      /\ result.out.value >= goals[i].targetValue
           => goals[i].status = "completed"
      /\ goals[i].currentValue < goals[i].targetValue
           /\ goals[i].status = "completed"
           => result.out.goals[i].status = "completed"

\* the target is reached by an update
C25_Witness ==
  /\ result.op = "handleUpdateProgress"
  /\ \E i \in UpdatedIndexes : result.out.value >= goals[i].targetValue
\* a goal below its target is marked COMPLETED by the update
C25_WitnessNewlyCompleted ==
  /\ result.op = "handleUpdateProgress"
  /\ \E i \in UpdatedIndexes :
       /\ goals[i].currentValue < goals[i].targetValue
       /\ goals[i].status = "completed"
       /\ result.out.goals[i].status # "completed"

\* the weekly slope of a metric's recorded values over the day index
RecordedWeeklyChange(entries, metric) ==
  Mul(linearRegression(
        [i \in 1..Len(entries) |-> entries[i].date - entries[1].date],
        [i \in 1..Len(entries) |-> FieldOf(entries[i], metric)]).slope,
      I(7))

\* C24: for each metric recorded in every entry, stress included, the trend
\* reported by analyzeTrends is increasing when the recorded values rise by
\* at least 0.1 per week and decreasing when they fall by at least 0.1.
C24_TrendFollowsRecordedValues ==
  result.op = "analyzeTrends" =>
    \A i \in 1..Len(result.out) :
      (\A j \in 1..Len(thisEntries) :
         result.out[i].metric \notin thisEntries[j].missing)
      => /\ Ge(RecordedWeeklyChange(thisEntries, result.out[i].metric), Q(1, 10))
              => result.out[i].direction = "increasing"
         /\ Le(RecordedWeeklyChange(thisEntries, result.out[i].metric), Q(-1, 10))
              => result.out[i].direction = "decreasing"

\* recorded stress rises by at least 0.1 per week
C24_Witness ==
  /\ result.op = "analyzeTrends"
  /\ \E i \in 1..Len(result.out) :
       /\ result.out[i].metric = "stress"
       /\ \A j \in 1..Len(thisEntries) : "stress" \notin thisEntries[j].missing
       /\ Ge(RecordedWeeklyChange(thisEntries, "stress"), Q(1, 10))

\* the mean mood of the last 7 entries
RecentMeanMood(entries) == AverageOf(SliceLast(entries, 7), "mood")

\* C26: predictions.nextWeekMood of generateAdvancedInsights lies in
\* [1, 10]; it is not below the mean mood of the last 7 entries when the
\* fitted mood slope is >= 0, not above it when the slope is <= 0, and equal
\* to it when no mood trend is available.
C26_NextWeekMoodFollowsSlope ==
  result.op = "generateAdvancedInsights" /\ thisEntries # <<>> =>
    /\ Ge(result.out.predictions.nextWeekMood, I(1))
    /\ Le(result.out.predictions.nextWeekMood, I(10))
    /\ IF result.out.trends = <<>>
       THEN result.out.predictions.nextWeekMood = RecentMeanMood(thisEntries)
       ELSE /\ Ge(SlopeOf(thisEntries, "mood"), I(0))
                 => Ge(result.out.predictions.nextWeekMood,
                       RecentMeanMood(thisEntries))
            /\ Le(SlopeOf(thisEntries, "mood"), I(0))
                 => Le(result.out.predictions.nextWeekMood,
                       RecentMeanMood(thisEntries))

\* the part of C26 on the direction, for a mood slope that is a number
C26_NextWeekMoodDirection ==
  result.op = "generateAdvancedInsights" /\ result.out.trends # <<>> =>
    /\ Gt(SlopeOf(thisEntries, "mood"), I(0))
         => Ge(result.out.predictions.nextWeekMood, RecentMeanMood(thisEntries))
    /\ Lt(SlopeOf(thisEntries, "mood"), I(0))
         => Le(result.out.predictions.nextWeekMood, RecentMeanMood(thisEntries))

\* a mood trend is used for the prediction
C26_Witness ==
  /\ result.op = "generateAdvancedInsights"
  /\ result.out.trends # <<>>
  /\ Gt(SlopeOf(thisEntries, "mood"), I(0))

\* C27: in a pattern returned by detectWeeklyPatterns no weekday is in both
\* peakDays and lowDays.
C27_PeakAndLowDisjoint ==
  result.op = "detectWeeklyPatterns" =>
    \A i \in 1..Len(result.out) :
      DaySet(result.out[i].peakDays) \cap DaySet(result.out[i].lowDays) = {}

\* a pattern is returned
C27_Witness ==
  /\ result.op = "detectWeeklyPatterns"
  /\ result.out # <<>>

\* a weekday is both a peak day and a low day
C27_WitnessOverlap ==
  /\ result.op = "detectWeeklyPatterns"
  /\ \E i \in 1..Len(result.out) :
       DaySet(result.out[i].peakDays) \cap DaySet(result.out[i].lowDays) # {}

\* every entry's date is at most the next entry's date; a date that cannot
\* be read is in no order with any other
Ascending(list) ==
  \A i \in 1..Len(list) - 1 :
    /\ ~IsInvalidDate(list[i].date) /\ ~IsInvalidDate(list[i + 1].date)
    /\ list[i].date <= list[i + 1].date

\* C28: in useMoodTracker, after any sequence of addEntry, updateEntry,
\* deleteEntry and importData from the loaded state, the entries list is in
\* ascending date order.
C28_EntriesAscending == part = "tracker" => Ascending(trackerEntries)

\* C28 for the entries whose dates can be read: earlier in the list means
\* not later in time
C28_ReadableDatesAscending ==
  part = "tracker" =>
    \A i \in 1..Len(trackerEntries), j \in 1..Len(trackerEntries) :
      i < j /\ ~IsInvalidDate(trackerEntries[i].date)
            /\ ~IsInvalidDate(trackerEntries[j].date)
      => trackerEntries[i].date <= trackerEntries[j].date

\* C28 as long as every date in the list can be read
C28_AscendingWhenDatesReadable ==
  part = "tracker"
  /\ (\A i \in 1..Len(trackerEntries) : ~IsInvalidDate(trackerEntries[i].date))
  => Ascending(trackerEntries)

\* updateEntry has moved the date of an entry past that of a later one
C28_Witness ==
  /\ result.op = "updateEntry"
  /\ storage.entries # trackerEntries
  /\ Len(trackerEntries) >= 2

DistinctIds(list) ==
  \A i \in 1..Len(list), j \in 1..Len(list) : i # j => list[i].id # list[j].id

\* C29: starting from entries with pairwise distinct ids, after importData
\* returns true no two entries share an id and every entry that existed
\* before is still in the list unchanged.
C29_ImportAvoidsDuplicates ==
  result.op = "importData" /\ result.out.ok /\ DistinctIds(result.out.before)
  => /\ DistinctIds(trackerEntries)
     /\ \A i \in 1..Len(result.out.before) :
          \E j \in 1..Len(trackerEntries) :
            trackerEntries[j] = result.out.before[i]

\* the part of C29 on the entries that existed before
C29_ImportKeepsExisting ==
  result.op = "importData" /\ result.out.ok
  => \A i \in 1..Len(result.out.before) :
       \E j \in 1..Len(trackerEntries) :
         trackerEntries[j] = result.out.before[i]

\* an import has added entries to a list that was not empty
C29_Witness ==
  /\ result.op = "importData" /\ result.out.ok
  /\ result.out.before # <<>>
  /\ Len(trackerEntries) > Len(result.out.before)

\* the entries stored for a date
StoredFor(date) ==
  {i \in 1..Len(storage.entries) : storage.entries[i].date = date}

\* C30: in the DailyMoodEntry form, after any sequence of date changes and
\* successful submits, the stored list holds at most one entry per calendar
\* date.
C30_OneEntryPerDate ==
  part = "form" =>
    \A i \in 1..Len(storage.entries) :
      Cardinality(StoredFor(storage.entries[i].date)) = 1

\* a submit was saved for a date that had a stored entry
C30_Witness ==
  /\ part = "form"
  /\ result.op = "handleSubmit" /\ result.out.ok
  /\ existingEntry # <<>>
  /\ StoredFor(result.out.date) # {}

\* a submit for the date of a stored entry has replaced that entry
C30_WitnessReplaced ==
  /\ part = "form"
  /\ result.op = "handleSubmit" /\ result.out.ok
  /\ \E i \in StoredFor(result.out.date) :
       storage.entries[i].id = 1 /\ storage.entries[i].mood = 8
====
